---- MODULE Spec2Model ----
(***************************************************************************)
(* A model of the vllm-loader core: the PortManager (port-manager.ts), the *)
(* ProcessManager (process-manager.ts) and the DownloadManager             *)
(* (download-manager.ts).                                                  *)
(*                                                                         *)
(* Three next-state relations are given, one per component, each leaving   *)
(* the variables of the other components alone:                            *)
(*   SpecPA  the PortManager driven directly by arbitrary calls;           *)
(*   Spec    the ProcessManager (with the PortManager it owns);            *)
(*   SpecDL  the DownloadManager.                                          *)
(* Four more put the routes in front of the managers:                      *)
(*   SpecRequests  the two routes that start a process or a download;      *)
(*   SpecJoint     both managers side by side;                             *)
(*   SpecStreams   the event streams of one process and one download;      *)
(*   SpecView      the channels of the ProcessManager and their viewers.   *)
(***************************************************************************)
EXTENDS Integers, FiniteSets, Sequences, TLC

\* ------------------------------------------------------------------ bounds
\* Number of ports of the range [BASE_PORT, MAX_PORT] the model explores.
PortSpan == 2
\* Number of process records (uuids) that can ever be created.
MaxRecords == 2
\* Number of supervisor restarts (a new ProcessManager on the persisted file).
MaxCrashes == 1
\* Number of direct PortManager calls SpecPA makes in one run.
MaxCalls == 6
\* Number of download records that can ever be created.
MaxDownloads == 2
\* The largest byte count a transfer reports.
MaxBytes == 2
\* The model's maxLogLines (1000 in the code): the lines a log buffer keeps.
MaxLogLines == 1
LogCap == 3
TickMs == 50
MaxTime == 250
MaxArrivals == 6
\* Number of stream viewers (SSE connections) per manager.
MaxViewers == 2
\* Records and downloads the specifications of both managers together create.
JointRecords == 1

\* --------------------------------------------------------------- constants
BASE_PORT == 8000
MAX_PORT == 8100
\* The throttle of progress events, in ms (download-manager.ts, lines 70 and 523).
ThrottleMs == 100

\* Highest port the model explores: the range is cut to PortSpan ports.
MaxPort ==
  IF BASE_PORT + PortSpan - 1 < MAX_PORT THEN BASE_PORT + PortSpan - 1 ELSE MAX_PORT
Ports == BASE_PORT..MaxPort
\* Arguments given to release / reserve / isAvailable: one port outside on each side.
PortArgs == (BASE_PORT - 1)..(MaxPort + 1)

\* What allocate yields when it throws "No available ports in range".
Exhausted == BASE_PORT - 1

VARIABLES
  usedPorts,   \* PortManager.usedPorts
  live,        \* history: per port, allocations handed out and not released since
  paOp,        \* the last PortManager call made directly and its result
  paCalls,     \* the number of PortManager calls made directly
  refUsed,     \* reference model: the set of held ports
  refOp,       \* reference model: what the last direct call should have returned
  processes,   \* the keys of ProcessManager.processes
  managed,     \* the ManagedProcess object of each id (the map's value, also held by closures)
  stateFile,   \* the contents of STATE_FILE (processes.json)
  child,       \* the subprocess of each record, as the operating system has it
  spawnWait,   \* spawn calls waiting out their 2000 ms grace period
  killWait,    \* kill calls waiting for the "exit" event
  killTimer,   \* kill calls whose force-kill timeout is armed
  restartWait, \* restart calls waiting for their kill: the id their spawn will use
  gkill,       \* history: records on which kill(id, false) was called while running and alive
  call,        \* the API call or subprocess event of the last step and its immediate outcome
  emitted,     \* the events the last step published, in order
  viewers,     \* the stream viewers of the ProcessManager: subscription and what they got
  spawnCall,   \* history: per record, how the spawn call that created it went
  nextId,      \* the next fresh record id (uuidv4)
  crashes,     \* supervisor restarts so far
  shutdown,    \* the shutdown handler: its phase and the kill calls it still awaits
  downloads,   \* DownloadManager.downloads: per id, the Download info and the abort flag
  transfer,    \* where the background transfer of each download stands
  files,       \* the file names that exist under MODELS_PATH
  registry,    \* the file names registered with the model registry
  cancelOk,    \* history: downloads for which cancel returned true
  cancelNo,    \* history: downloads for which cancel returned false
  cancelEarly, \* history: URL downloads cancelled while their request was still pending
  dlOut,       \* what the last step did outside the map: register calls and events, in order
  nextDl,      \* the next fresh download id (uuidv4)
  dlViewers,   \* the stream viewers of the DownloadManager
  now,         \* Date.now(), in ms since the DownloadManager was made
  cfg,         \* the configuration overrides of a spawn request
  args,        \* the launch argument list built for it
  errors,      \* what validateConfig returned for it
  request,     \* the last request the routes received and what they answered
  logBuffer,   \* ManagedProcess.logs of one record: its lines, each with its arrival number and stream
  arrived,     \* history: every line that record's subprocess has written so far, in order
  shown,       \* what the getLogs call of the last step returned
  asked        \* whether the last step was a getLogs call, and the tail it was given

paVars == <<usedPorts, live, paOp, paCalls, refUsed, refOp>>
pmVars ==
  <<processes, managed, stateFile, child, spawnWait, killWait, killTimer,
    restartWait, gkill, call, emitted, viewers, spawnCall, nextId, crashes, shutdown>>
dlVars ==
  <<downloads, transfer, files, registry, cancelOk, cancelNo, cancelEarly, dlOut, nextDl,
    dlViewers>>
cfgVars == <<cfg, args, errors, request>>
logVars == <<logBuffer, arrived, shown, asked>>
vars == <<usedPorts, live, paOp, paCalls, refUsed, refOp, processes, managed, stateFile, child, spawnWait,
          killWait, killTimer, restartWait, gkill, call, emitted, viewers, spawnCall,
          nextId, crashes, shutdown,
          downloads, transfer, files, registry, cancelOk, cancelNo, cancelEarly, dlOut, nextDl,
          dlViewers, now, cfg, args, errors, request, logBuffer, arrived, shown, asked>>

Ids == 1..MaxRecords
\* What restartWait holds for a record no restart call is waiting on.
NoId == MaxRecords - MaxRecords

\* ------------------------------------------------------------ PortManager
Min(S) == CHOOSE x \in S : \A y \in S : x <= y

\* A scan that does not look at the used set.
allocateNoCheck(used) == BASE_PORT

\* allocate(): the first port of the ascending scan that is not used, or the throw.
allocate(used) ==
  IF \E p \in Ports : p \notin used
    THEN Min({p \in Ports : p \notin used})
    ELSE Exhausted

\* release(port): usedPorts.delete(port).
release(used, port) == used \ {port}

\* isAvailable(port).
isAvailable(used, port) == port \notin used /\ port >= BASE_PORT /\ port <= MaxPort

\* A reserve that does not look at the range or at the used set.
reserveUnchecked(used, port) == used \cup {port}

\* reserve(port): the used set after the call (the result is isAvailable before it).
reserve(used, port) == IF isAvailable(used, port) THEN used \cup {port} ELSE used

Bump(l, p) == [l EXCEPT ![p] = IF @ < 2 THEN @ + 1 ELSE @]

\* The reference model of the allocator: a set of held ports.
RefFree(S) == {p \in BASE_PORT..MaxPort : p \notin S}
RefLowest(S) == CHOOSE p \in RefFree(S) : \A q \in RefFree(S) : p <= q
RefAllocate(S) ==
  IF RefFree(S) = {} THEN [op |-> "allocate", port |-> Exhausted, ok |-> FALSE]
  ELSE [op |-> "allocate", port |-> RefLowest(S), ok |-> TRUE]
RefReserve(S, p) == [op |-> "reserve", port |-> p, ok |-> p \in RefFree(S)]
RefIsAvailable(S, p) == [op |-> "isAvailable", port |-> p, ok |-> p \in RefFree(S)]

PaAllocate ==
  /\ paCalls < MaxCalls
  /\ paCalls' = paCalls + 1
  /\ LET r == allocate(usedPorts) IN
       /\ paOp' = [op |-> "allocate", port |-> r, ok |-> r # Exhausted]
       /\ IF r = Exhausted
            THEN UNCHANGED <<usedPorts, live>>
            ELSE /\ usedPorts' = usedPorts \cup {r}
                 /\ live' = Bump(live, r)
  /\ refOp' = RefAllocate(refUsed)
  /\ refUsed' = IF RefFree(refUsed) = {} THEN refUsed ELSE refUsed \cup {RefLowest(refUsed)}
  /\ UNCHANGED <<pmVars, dlVars, cfgVars, logVars, now>>

PaRelease(p) ==
  /\ paCalls < MaxCalls
  /\ paCalls' = paCalls + 1
  /\ usedPorts' = release(usedPorts, p)
  /\ live' = IF p \in Ports THEN [live EXCEPT ![p] = 0] ELSE live
  /\ paOp' = [op |-> "release", port |-> p, ok |-> TRUE]
  /\ refOp' = [op |-> "release", port |-> p, ok |-> TRUE]
  /\ refUsed' = refUsed \ {p}
  /\ UNCHANGED <<pmVars, dlVars, cfgVars, logVars, now>>

PaReserve(p) ==
  /\ paCalls < MaxCalls
  /\ paCalls' = paCalls + 1
  /\ usedPorts' = reserve(usedPorts, p)
  /\ live' = IF isAvailable(usedPorts, p) THEN Bump(live, p) ELSE live
  /\ paOp' = [op |-> "reserve", port |-> p, ok |-> isAvailable(usedPorts, p)]
  /\ refOp' = RefReserve(refUsed, p)
  /\ refUsed' = IF p \in RefFree(refUsed) THEN refUsed \cup {p} ELSE refUsed
  /\ UNCHANGED <<pmVars, dlVars, cfgVars, logVars, now>>

PaIsAvailable(p) ==
  /\ paCalls < MaxCalls
  /\ paCalls' = paCalls + 1
  /\ paOp' = [op |-> "isAvailable", port |-> p, ok |-> isAvailable(usedPorts, p)]
  /\ refOp' = RefIsAvailable(refUsed, p)
  /\ UNCHANGED <<usedPorts, live, refUsed>>
  /\ UNCHANGED <<pmVars, dlVars, cfgVars, logVars, now>>

NextPA ==
  \/ PaAllocate
  \/ \E p \in PortArgs : PaRelease(p)
  \/ \E p \in PortArgs : PaReserve(p)
  \/ \E p \in PortArgs : PaIsAvailable(p)

\* ------------------------------------------------------------ vllm-config
\* An optional field of a configuration is the set of its values: {} when the
\* field is absent, {v} when it is v. gpuMemoryUtilization is kept in tenths.
Val(f) == CHOOSE v \in f : TRUE

HOST == "127.0.0.1"
ModelPath == "/data/models/a.gguf"

\* The overrides a request can carry (SpawnProcessRequest.config; the type leaves
\* port out, the JSON body need not).
UserConfigs ==
  [port : {{}, {80}},
   tensorParallelSize : {{}, {0}, {1}, {2}},
   pipelineParallelSize : {{}, {2}},
   dtype : {{}, {"auto"}, {"float16"}},
   maxModelLen : {{}, {0}, {4}},
   gpuMemoryUtilization : {{}, {0}, {5}, {11}},
   enforceEager : {{}, {TRUE}}]

NoOverrides ==
  [port |-> {}, tensorParallelSize |-> {}, pipelineParallelSize |-> {}, dtype |-> {},
   maxModelLen |-> {}, gpuMemoryUtilization |-> {}, enforceEager |-> {}]

\* Number.prototype.toString for the integers and the tenths the model uses.
Digits == <<"0", "1", "2", "3", "4", "5", "6", "7", "8", "9">>
RECURSIVE NumStr(_)
NumStr(n) == IF n < 10 THEN Digits[n + 1] ELSE NumStr(n \div 10) \o Digits[(n % 10) + 1]
TenthStr(t) ==
  IF t % 10 = 0 THEN NumStr(t \div 10) ELSE NumStr(t \div 10) \o "." \o Digits[(t % 10) + 1]

\* getDefaultConfig(port) (lines 465-474).
getDefaultConfig(port) ==
  [port |-> {port}, host |-> HOST, tensorParallelSize |-> {}, pipelineParallelSize |-> {},
   dtype |-> {"auto"}, maxModelLen |-> {}, gpuMemoryUtilization |-> {9},
   enforceEager |-> {FALSE}]

\* A merge in which a port among the overrides wins over the allocated one.
mergeConfigUserLast(port, user) ==
  LET d == getDefaultConfig(port)
      over(uf, df) == IF uf # {} THEN uf ELSE df
  IN [port |-> over(user.port, {port}), host |-> HOST,
      tensorParallelSize |-> over(user.tensorParallelSize, d.tensorParallelSize),
      pipelineParallelSize |-> over(user.pipelineParallelSize, d.pipelineParallelSize),
      dtype |-> over(user.dtype, d.dtype),
      maxModelLen |-> over(user.maxModelLen, d.maxModelLen),
      gpuMemoryUtilization |-> over(user.gpuMemoryUtilization, d.gpuMemoryUtilization),
      enforceEager |-> over(user.enforceEager, d.enforceEager)]

\* No configuration: the record does not exist.
NoConfig ==
  [port |-> {}, host |-> "", tensorParallelSize |-> {}, pipelineParallelSize |-> {},
   dtype |-> {}, maxModelLen |-> {}, gpuMemoryUtilization |-> {}, enforceEager |-> {}]

\* What restart hands to spawn (process-manager.ts, line 305): the old record's
\* config without its port and host.
userConfig(config) ==
  [port |-> {}, tensorParallelSize |-> config.tensorParallelSize,
   pipelineParallelSize |-> config.pipelineParallelSize, dtype |-> config.dtype,
   maxModelLen |-> config.maxModelLen, gpuMemoryUtilization |-> config.gpuMemoryUtilization,
   enforceEager |-> config.enforceEager]

\* The merged configuration of spawn (lines 162-167): the defaults, overridden
\* by the fields the overrides carry, then port and host set again.
mergeConfig(port, user) ==
  LET d == getDefaultConfig(port)
      over(uf, df) == IF uf # {} THEN uf ELSE df
  IN [port |-> {port}, host |-> HOST,
      tensorParallelSize |-> over(user.tensorParallelSize, d.tensorParallelSize),
      pipelineParallelSize |-> over(user.pipelineParallelSize, d.pipelineParallelSize),
      dtype |-> over(user.dtype, d.dtype),
      maxModelLen |-> over(user.maxModelLen, d.maxModelLen),
      gpuMemoryUtilization |-> over(user.gpuMemoryUtilization, d.gpuMemoryUtilization),
      enforceEager |-> over(user.enforceEager, d.enforceEager)]

\* A builder that emits the data type whenever it is set.
buildVLLMArgsAlways(modelPath, config) ==
  <<"serve", modelPath, "--port", NumStr(Val(config.port)), "--host", config.host>>
    \o (IF config.tensorParallelSize # {}
          THEN <<"--tensor-parallel-size", NumStr(Val(config.tensorParallelSize))>>
          ELSE <<>>)
    \o (IF config.dtype # {} THEN <<"--dtype", Val(config.dtype)>> ELSE <<>>)

\* buildVLLMArgs(modelPath, config) (lines 382-463), for the fields modelled.
buildVLLMArgs(modelPath, config) ==
  <<"serve", modelPath, "--port", NumStr(Val(config.port)), "--host", config.host>>
    \o (IF config.tensorParallelSize # {} /\ Val(config.tensorParallelSize) # 0
            /\ Val(config.tensorParallelSize) > 1
          THEN <<"--tensor-parallel-size", NumStr(Val(config.tensorParallelSize))>>
          ELSE <<>>)
    \o (IF config.pipelineParallelSize # {} /\ Val(config.pipelineParallelSize) # 0
            /\ Val(config.pipelineParallelSize) > 1
          THEN <<"--pipeline-parallel-size", NumStr(Val(config.pipelineParallelSize))>>
          ELSE <<>>)
    \o (IF config.dtype # {} /\ Val(config.dtype) # "auto"
          THEN <<"--dtype", Val(config.dtype)>>
          ELSE <<>>)
    \o (IF config.maxModelLen # {} /\ Val(config.maxModelLen) # 0
          THEN <<"--max-model-len", NumStr(Val(config.maxModelLen))>>
          ELSE <<>>)
    \o (IF config.gpuMemoryUtilization # {} /\ Val(config.gpuMemoryUtilization) # 0
            /\ Val(config.gpuMemoryUtilization) > 0
            /\ Val(config.gpuMemoryUtilization) <= 10
          THEN <<"--gpu-memory-utilization", TenthStr(Val(config.gpuMemoryUtilization))>>
          ELSE <<>>)
    \o (IF config.enforceEager # {} /\ Val(config.enforceEager)
          THEN <<"--enforce-eager">>
          ELSE <<>>)

\* A validation that accepts everything.
validateNothing(config) == <<>>

\* validateConfig(config) (lines 476-510): the error messages, in order.
validateConfig(config) ==
  (IF config.port # {} /\ (Val(config.port) < 1024 \/ Val(config.port) > 65535)
     THEN <<"Port must be between 1024 and 65535">> ELSE <<>>)
    \o (IF config.gpuMemoryUtilization # {}
            /\ (Val(config.gpuMemoryUtilization) <= 0
                  \/ Val(config.gpuMemoryUtilization) > 10)
          THEN <<"GPU memory utilization must be between 0 and 1">> ELSE <<>>)
    \o (IF config.tensorParallelSize # {} /\ Val(config.tensorParallelSize) < 1
          THEN <<"Tensor parallel size must be at least 1">> ELSE <<>>)
    \o (IF config.maxModelLen # {} /\ Val(config.maxModelLen) < 1
          THEN <<"Max model length must be at least 1">> ELSE <<>>)

\* What errors holds before validateConfig has run.
NotValidated == <<"not validated">>

\* spawn builds the argument list for the merged configuration (line 190).
BuildArgs(port) ==
  /\ args = <<>>
  /\ args' = buildVLLMArgs(ModelPath, mergeConfig(port, cfg))
  /\ UNCHANGED <<cfg, errors, request, paVars, pmVars, dlVars, logVars, now>>

\* The route validates the overrides of the request (part_006, lines 38-46).
Validate ==
  /\ errors = NotValidated
  /\ errors' = validateConfig(cfg)
  /\ UNCHANGED <<cfg, args, request, paVars, pmVars, dlVars, logVars, now>>

\* No request has been received yet.
NoRequest ==
  [kind |-> "none", type |-> "", input |-> "", config |-> NoOverrides, res |-> ""]

CfgInit ==
  /\ cfg = NoOverrides
  /\ args = <<>>
  /\ errors = NotValidated
  /\ request = NoRequest

NextArgs ==
  \/ \E port \in Ports : BuildArgs(port)
  \/ Validate

\* --------------------------------------------------------- ProcessManager
Live == {"starting", "running", "stopping"}
Terminal == {"stopped", "error"}

\* A ManagedProcess: info.status, info.port, info.error ("" when unset),
\* whether the process handle is set, and the length of the log buffer; the
\* info as the state file holds it.
NoRec ==
  [status |-> "none", port |-> Exhausted, error |-> "", process |-> FALSE, logs |-> 0,
   config |-> NoConfig]
NoInfo == [status |-> "none", port |-> Exhausted, error |-> "", config |-> NoConfig]

\* The last step made no API call.
NoCall == [op |-> "none", id |-> NoId, res |-> "", code |-> 0]
\* No shutdown signal has been received.
NoShutdown == [phase |-> "no", await |-> {}]
\* No spawn call created the record (yet).
NoSpawn == [res |-> "none", with |-> {}, of |-> NoId]

\* The part of the state one synchronous stretch of ProcessManager code works on:
\* c.used is PortManager.usedPorts, c.procs the keys of the map, c.mgd the
\* ManagedProcess objects, c.file the state file, c.ev the status events the
\* stretch has published so far.
Core ==
  [used |-> usedPorts, procs |-> processes, mgd |-> managed, file |-> stateFile,
   ev |-> <<>>, user |-> NoOverrides]
\* The same at the start of a spawn call that is given the overrides user.
CoreWith(user) == [Core EXCEPT !.user = user]

\* A saveState that leaves the records with a terminal status out of the file.
saveStateLiveOnly(procs, mgd) ==
  [i \in Ids |->
    IF i \in procs /\ mgd[i].status \in Live
      THEN [status |-> mgd[i].status, port |-> mgd[i].port, error |-> mgd[i].error,
            config |-> mgd[i].config]
      ELSE NoInfo]

\* saveState() (lines 78-87): the info of every value of the map, written
\* wholesale; a failed write is caught and logged, the model writes always succeed.
saveState(procs, mgd) ==
  [i \in Ids |->
    IF i \in procs
      THEN [status |-> mgd[i].status, port |-> mgd[i].port, error |-> mgd[i].error,
            config |-> mgd[i].config]
      ELSE NoInfo]

\* An updateStatus that drops the message it is given.
updateStatusDropsMessage(c, id, st, err) ==
  IF id \notin c.procs
    THEN c
    ELSE LET m2 == [c.mgd EXCEPT ![id].status = st]
             u2 == IF st \in Terminal THEN release(c.used, c.mgd[id].port) ELSE c.used
         IN [used |-> u2, procs |-> c.procs, mgd |-> m2, file |-> saveState(c.procs, m2),
             ev |-> Append(c.ev, [type |-> "status", id |-> id, status |-> st]),
             user |-> c.user]

\* updateStatus(processId, status, error): nothing when the id is not in the
\* map; otherwise set the status, set info.error when a message is given,
\* release the port on stopped/error, saveState(), publish a status event.
updateStatusErr(c, id, st, err) ==
  IF id \notin c.procs
    THEN c
    ELSE LET m2 == [c.mgd EXCEPT ![id].status = st,
                                 ![id].error = IF err # "" THEN err ELSE @]
             u2 == IF st \in Terminal THEN release(c.used, c.mgd[id].port) ELSE c.used
         IN [used |-> u2, procs |-> c.procs, mgd |-> m2, file |-> saveState(c.procs, m2),
             ev |-> Append(c.ev, [type |-> "status", id |-> id, status |-> st]),
             user |-> c.user]

\* updateStatus(processId, status) without a message.
updateStatus(c, id, st) == updateStatusErr(c, id, st, "")

\* addLog(processId, message, stream) (lines 108-129): nothing when the id is
\* not in the map; otherwise push the line, trim the buffer to maxLogLines,
\* publish a log event.
addLog(c, id) ==
  IF id \notin c.procs
    THEN c
    ELSE [c EXCEPT !.mgd[id].logs = IF @ < MaxLogLines THEN @ + 1 ELSE @,
                   !.ev = Append(@, [type |-> "log", id |-> id, status |-> ""])]

\* ---- the log buffer of one record, line by line; LogCap stands for maxLogLines
\* Array.prototype.slice(-n) for n > 0: the last n elements, all when there are fewer.
sliceLast(s, n) == IF n >= Len(s) THEN s ELSE SubSeq(s, Len(s) - n + 1, Len(s))

\* A push that, over the cap, keeps the oldest lines.
pushLineKeepsOldest(buf, line) ==
  LET b == Append(buf, line)
  IN IF Len(b) > LogCap THEN SubSeq(b, 1, LogCap) ELSE b

\* addLog on the buffer (lines 112-118): push the line, then trim to the cap.
pushLine(buf, line) ==
  LET b == Append(buf, line)
  IN IF Len(b) > LogCap THEN sliceLast(b, LogCap) ELSE b

\* getLogs on the buffer (lines 326-329); tail is {} when the argument is absent.
getLogs(buf, tail) ==
  IF tail # {} /\ Val(tail) > 0 THEN sliceLast(buf, Val(tail)) ELSE buf

\* The tails the callers ask for: none (the stream route) or a positive count
\* (the process route).
Tails == {{}} \cup {{n} : n \in 1..(LogCap + 1)}
NoAsk == [called |-> FALSE, tail |-> {}]

\* A line arrives on stdout or stderr of the record.
LineArrives(stream) ==
  /\ Len(arrived) < MaxArrivals
  /\ arrived' = Append(arrived, [n |-> Len(arrived) + 1, stream |-> stream])
  /\ logBuffer' = pushLine(logBuffer, [n |-> Len(arrived) + 1, stream |-> stream])
  /\ shown' = <<>>
  /\ asked' = NoAsk
  /\ UNCHANGED <<paVars, pmVars, dlVars, cfgVars, now>>

GetLogs(tail) ==
  /\ shown' = getLogs(logBuffer, tail)
  /\ asked' = [called |-> TRUE, tail |-> tail]
  /\ UNCHANGED <<logBuffer, arrived, paVars, pmVars, dlVars, cfgVars, now>>

LogInit ==
  /\ logBuffer = <<>>
  /\ arrived = <<>>
  /\ shown = <<>>
  /\ asked = NoAsk

NextLogs ==
  \/ \E stream \in {"stdout", "stderr"} : LineArrives(stream)
  \/ \E tail \in Tails : GetLogs(tail)

\* What launching the subprocess can do: "ok" (the child runs), "enoent" (spawn
\* returns a ChildProcess that emits "error" and never "exit"), "throw" (spawn
\* throws synchronously into the catch of lines 252-260).
Launches == {"ok", "enoent", "throw"}

\* spawn() up to its await, for the fresh id nid: lines 161-243, and for "enoent"
\* the "error" handler (lines 222-225) that the next tick runs before any other
\* request, and for "throw" the catch (lines 252-260).
spawnLaunch(c, nid, launch, port) ==
  LET procs1 == c.procs \cup {nid}
      mgd1 == [c.mgd EXCEPT ![nid] =
                 [status |-> "starting", port |-> port, error |-> "", process |-> FALSE,
                  logs |-> 0, config |-> mergeConfig(port, c.user)]]
      c1 == [used |-> c.used \cup {port}, procs |-> procs1, mgd |-> mgd1,
             file |-> saveState(procs1, mgd1), ev |-> c.ev, user |-> c.user]
      c2 == [c1 EXCEPT !.mgd[nid].process = TRUE]
  IN CASE launch = "ok" -> c2
       [] launch = "enoent" -> updateStatusErr(c2, nid, "error", "spawn ENOENT")
       [] OTHER ->
            updateStatusErr([c1 EXCEPT !.used = release(c1.used, port)], nid, "error",
                            "spawn threw")

\* A spawn that, finding no port free, takes the lowest one from its holder.
spawnSyncSteals(c, nid, launch) ==
  IF allocate(c.used) = Exhausted
    THEN [c EXCEPT !.used = release(c.used, BASE_PORT)]
    ELSE spawnLaunch(c, nid, launch, allocate(c.used))

\* When allocate throws (line 161) nothing has been touched: the call is outside
\* the try block and before the record is made.
spawnSync(c, nid, launch) ==
  IF allocate(c.used) = Exhausted
    THEN c
    ELSE spawnLaunch(c, nid, launch, allocate(c.used))

\* The child a spawn leaves behind, and whether the spawn call is in its grace wait.
childAfter(c, launch) ==
  IF allocate(c.used) = Exhausted THEN "none"
  ELSE CASE launch = "ok" -> "alive" [] launch = "enoent" -> "failed" [] OTHER -> "none"
waitsAfter(c, launch) == allocate(c.used) # Exhausted /\ launch # "throw"
\* How the spawn call stands when it yields: rejected already, or in its grace wait.
spawnRes(c, launch) == IF waitsAfter(c, launch) THEN "pending" ELSE "threw"
\* The record of a spawn call made now, on behalf of restart(old) or of nobody.
spawnCalled(c, launch, old) ==
  [res |-> spawnRes(c, launch), with |-> {i \in Ids : spawnWait[i]}, of |-> old]

\* ---- the event channels (EventEmitter) and the stream routes' viewers
ViewerIds == 1..MaxViewers

\* A viewer: what it is subscribed to ("none", "all" for the global channel,
\* "one" for the channel of the entity id), the status and the number of log
\* lines its stream has shown so far for that entity (the init snapshot, then
\* the live events), and the messages written to its stream in the last step.
NoViewer == [kind |-> "none", id |-> NoId, seen |-> "", lines |-> 0, inbox |-> <<>>]

\* The callback the stream routes subscribe (process/[id]/route.ts, lines
\* 37-44): the event is written to the stream.
receive(w, e) ==
  [w EXCEPT !.inbox = Append(@, e),
            !.seen = IF w.kind = "one" /\ e.type = "status" THEN e.status ELSE @,
            !.lines = IF w.kind = "one" /\ e.type = "log" /\ @ < MaxLogLines
                        THEN @ + 1 ELSE @]

\* EventEmitter.emit(channel, event): every listener of that channel is called.
emit(vs, kind, id, e) ==
  [v \in ViewerIds |->
     IF vs[v].kind = kind /\ vs[v].id = id THEN receive(vs[v], e) ELSE vs[v]]

\* An emitEvent that publishes on the channel of the entity only.
emitEventOwnChannel(vs, e) == emit(vs, "one", e.id, e)

\* emitEvent(event) (lines 103-106): the global channel, then the channel of
\* the event's process.
emitEvent(vs, e) == emit(emit(vs, "all", NoId, e), "one", e.id, e)

\* The emitEvent calls of one synchronous stretch, in order.
RECURSIVE emitAll(_, _)
emitAll(vs, ev) ==
  IF ev = <<>> THEN vs ELSE emitAll(emitEvent(vs, Head(ev)), Tail(ev))

\* The viewers at the start of a step: nothing written to any stream yet.
quiet(vs) == [v \in ViewerIds |-> [vs[v] EXCEPT !.inbox = <<>>]]

\* What a step published, and the viewers after the listeners ran.
Published(ev) ==
  /\ emitted' = ev
  /\ viewers' = emitAll(quiet(viewers), ev)

SetState(c) ==
  /\ usedPorts' = c.used
  /\ processes' = c.procs
  /\ managed' = c.mgd
  /\ stateFile' = c.file

SetCore(c) ==
  /\ SetState(c)
  /\ Published(c.ev)

\* spawn(modelId, ...) (lines 155-261) up to its await.
SpawnCallWith(user, launch) ==
  /\ nextId <= MaxRecords
  /\ allocate(usedPorts) # Exhausted
  /\ SetCore(spawnSync(CoreWith(user), nextId, launch))
  /\ child' = [child EXCEPT ![nextId] = childAfter(Core, launch)]
  /\ spawnWait' = [spawnWait EXCEPT ![nextId] = waitsAfter(Core, launch)]
  /\ spawnCall' = [spawnCall EXCEPT ![nextId] = spawnCalled(Core, launch, NoId)]
  /\ call' = [op |-> "spawn", id |-> nextId, res |-> spawnRes(Core, launch), code |-> 0]
  /\ nextId' = nextId + 1
  /\ UNCHANGED <<killWait, killTimer, restartWait, gkill, crashes, shutdown, live, paOp, paCalls, refUsed, refOp, dlVars>>

\* spawn(modelId, modelPath) with no overrides.
SpawnCall(launch) == SpawnCallWith(NoOverrides, launch)

\* spawn called with a model and a configuration the route has accepted.
Spawn(launch) ==
  /\ SpawnCall(launch)
  /\ UNCHANGED <<cfgVars, logVars, now>>

\* The model ids a request can name: none, one the registry does not know,
\* one it knows.
ModelIds == {"", "unknown", "known"}

\* The overrides the requests of the model carry: none, one value out of
\* bounds for each validated setting, and values within bounds.
RequestConfigs ==
  {NoOverrides,
   [NoOverrides EXCEPT !.port = {80}],
   [NoOverrides EXCEPT !.gpuMemoryUtilization = {11}],
   [NoOverrides EXCEPT !.tensorParallelSize = {0}],
   [NoOverrides EXCEPT !.maxModelLen = {0}],
   [NoOverrides EXCEPT !.tensorParallelSize = {2}, !.gpuMemoryUtilization = {5}]}

\* The error POST /api/processes answers with before it calls spawn (part_006,
\* lines 24-46), "" when it goes on to spawn.
spawnRejection(model, user) ==
  IF model = "" THEN "Model ID is required"
  ELSE IF model # "known" THEN "Model not found"
  ELSE IF validateConfig(user) # <<>> THEN "Invalid configuration"
  ELSE ""

\* POST /api/processes (part_006, lines 20-63).
PostProcesses(model, user, launch) ==
  /\ request' = [kind |-> "spawn", type |-> "", input |-> model, config |-> user,
                 res |-> spawnRejection(model, user)]
  /\ IF spawnRejection(model, user) # ""
       THEN /\ launch = "ok"
            /\ call' = NoCall
            /\ Published(<<>>)
            /\ UNCHANGED <<usedPorts, processes, managed, stateFile, child, spawnWait,
                           killWait, killTimer, restartWait, gkill, spawnCall, nextId,
                           crashes, shutdown, live, paOp, paCalls, refUsed, refOp, dlVars>>
       ELSE SpawnCallWith(user, launch)
  /\ UNCHANGED <<cfg, args, errors, logVars, now>>

\* spawn() when allocate throws (line 161): nothing has been touched yet.
SpawnExhausted ==
  /\ allocate(usedPorts) = Exhausted
  /\ SetCore(spawnSync(Core, nextId, "ok"))
  /\ call' = [op |-> "spawn", id |-> NoId, res |-> "exhausted", code |-> 0]
  /\ UNCHANGED <<child, spawnWait, killWait, killTimer, restartWait, gkill, spawnCall,
                 nextId, crashes, shutdown, live, paOp, paCalls, refUsed, refOp, dlVars, cfgVars, logVars, now>>

\* The message of the error thrown at the end of the grace period (line 248).
graceMessage(err) == IF err # "" THEN err ELSE "Process failed to start"

\* The end of spawn's grace period (lines 245-260): a record in error makes the
\* try block throw, and the catch releases the port and calls updateStatus.
GraceEnd(id) ==
  /\ spawnWait[id]
  /\ spawnWait' = [spawnWait EXCEPT ![id] = FALSE]
  /\ IF managed[id].status = "error"
       THEN /\ SetCore(updateStatusErr(
                 [Core EXCEPT !.used = release(usedPorts, managed[id].port)], id, "error",
                 graceMessage(managed[id].error)))
            /\ spawnCall' = [spawnCall EXCEPT ![id].res = "threw"]
            /\ call' = [op |-> "spawnEnd", id |-> id, res |-> "throws", code |-> 0]
       ELSE /\ UNCHANGED <<usedPorts, processes, managed, stateFile>>
            /\ Published(<<>>)
            /\ spawnCall' = [spawnCall EXCEPT ![id].res = "returned"]
            /\ call' = [op |-> "spawnEnd", id |-> id, res |-> "returns", code |-> 0]
  /\ UNCHANGED <<child, killWait, killTimer, restartWait, gkill, nextId, crashes, shutdown,
                 live, paOp, paCalls, refUsed, refOp, dlVars, cfgVars, logVars, now>>

\* A stdout or stderr chunk with one line that holds no readiness marker
\* (lines 201-220): the line is logged.
OutputLine(id) ==
  /\ child[id] \in {"alive", "killed", "exited"}
  /\ SetCore(addLog(Core, id))
  /\ child' = [child EXCEPT ![id] = IF @ = "exited" THEN "closed" ELSE @]
  /\ call' = NoCall
  /\ UNCHANGED <<spawnWait, killWait, killTimer, restartWait, gkill, spawnCall, nextId,
                 crashes, shutdown, live, paOp, paCalls, refUsed, refOp, dlVars, cfgVars, logVars, now>>

\* A stdout chunk with a line holding a readiness marker (lines 201-213): the
\* line is logged, then the status is set. The pipe can still deliver one
\* buffered chunk after the "exit" event.
StdoutReady(id) ==
  /\ child[id] \in {"alive", "killed", "exited"}
  /\ SetCore(updateStatus(addLog(Core, id), id, "running"))
  /\ child' = [child EXCEPT ![id] = IF @ = "exited" THEN "closed" ELSE @]
  /\ call' = [op |-> "marker", id |-> id, res |-> "stdout", code |-> 0]
  /\ UNCHANGED <<spawnWait, killWait, killTimer, restartWait, gkill, spawnCall, nextId,
                 crashes, shutdown, live, paOp, paCalls, refUsed, refOp, dlVars, cfgVars, logVars, now>>

\* A stderr chunk with a line holding a readiness marker (lines 214-219): the
\* line is logged; the stderr handler does not look for the marker.
StderrReady(id) ==
  /\ child[id] \in {"alive", "killed", "exited"}
  /\ SetCore(addLog(Core, id))
  /\ child' = [child EXCEPT ![id] = IF @ = "exited" THEN "closed" ELSE @]
  /\ call' = [op |-> "marker", id |-> id, res |-> "stderr", code |-> 0]
  /\ UNCHANGED <<spawnWait, killWait, killTimer, restartWait, gkill, spawnCall, nextId,
                 crashes, shutdown, live, paOp, paCalls, refUsed, refOp, dlVars, cfgVars, logVars, now>>

\* A handler that looks at the exit code only.
exitStatusByCode(st, code) == IF code = 0 THEN "stopped" ELSE "error"

\* The status the "exit" handler sets (lines 231-240).
exitStatus(st, code) ==
  IF st # "stopping" /\ st # "stopped"
    THEN (IF code = 0 THEN "stopped" ELSE "error")
    ELSE "stopped"

\* The message the "exit" handler gives updateStatus (line 236), "" for none.
exitMessage(st, code) ==
  IF st # "stopping" /\ st # "stopped" /\ code # 0 THEN "Process exited" ELSE ""

\* Exit codes: 0, 1, and -1 for null (the child was ended by a signal).
ExitCodes == {0, 1, 0 - 1}

\* The "exit" event of a child (lines 227-242), then the once("exit") listeners
\* of the pending kill calls (lines 285-288), then the continuation of a restart
\* that awaited the kill (lines 302-307): spawn up to its await.
ExitEvent(id, code, late, launch) ==
  /\ child[id] \in {"alive", "killed"}
  /\ (restartWait[id] = NoId => launch = "ok")
  /\ LET c1 == updateStatusErr(Core, id, exitStatus(managed[id].status, code),
                               exitMessage(managed[id].status, code))
         c2 == [c1 EXCEPT !.mgd[id].process = FALSE]
         nid == restartWait[id]
         c3 == IF nid = NoId THEN c2
               ELSE spawnSync([c2 EXCEPT !.user = userConfig(managed[id].config)], nid, launch)
     IN /\ SetCore(c3)
        /\ child' = LET ch1 == [child EXCEPT ![id] = IF late THEN "exited" ELSE "closed"]
                     IN IF nid = NoId THEN ch1
                        ELSE [ch1 EXCEPT ![nid] = childAfter(c2, launch)]
        /\ spawnWait' = IF nid = NoId THEN spawnWait
                        ELSE [spawnWait EXCEPT ![nid] = waitsAfter(c2, launch)]
        /\ spawnCall' = IF nid = NoId THEN spawnCall
                        ELSE [spawnCall EXCEPT ![nid] = spawnCalled(c2, launch, id)]
  /\ killWait' = [killWait EXCEPT ![id] = FALSE]
  /\ killTimer' = [killTimer EXCEPT ![id] = FALSE]
  /\ restartWait' = [restartWait EXCEPT ![id] = NoId]
  /\ call' = [op |-> "exit", id |-> id, res |-> "", code |-> code]
  /\ shutdown' = [shutdown EXCEPT !.await = @ \ {id}]
  /\ UNCHANGED <<gkill, nextId, crashes, live, paOp, paCalls, refUsed, refOp, dlVars, cfgVars, logVars, now>>

\* kill(processId, force) up to the promise (lines 263-291).
killSync(c, id) ==
  IF ~c.mgd[id].process THEN updateStatus(c, id, "stopped")
  ELSE updateStatus(c, id, "stopping")

\* The child after process.kill(sig): SIGKILL ends a running child; SIGTERM may
\* be ignored, and a child can exit at any time anyway.
signalled(ch, sig) == IF sig = "SIGKILL" /\ ch = "alive" THEN "killed" ELSE ch

Kill(id, force) ==
  /\ id \in processes
  /\ SetCore(killSync(Core, id))
  /\ IF managed[id].process
       THEN /\ killWait' = [killWait EXCEPT ![id] = TRUE]
            /\ killTimer' = [killTimer EXCEPT ![id] = IF force THEN @ ELSE TRUE]
            /\ child' = [child EXCEPT
                           ![id] = signalled(@, IF force THEN "SIGKILL" ELSE "SIGTERM")]
            /\ gkill' = IF ~force /\ managed[id].status = "running" /\ child[id] = "alive"
                          THEN gkill \cup {id} ELSE gkill
       ELSE UNCHANGED <<killWait, killTimer, child, gkill>>
  /\ call' = [op |-> "kill", id |-> id,
              res |-> IF managed[id].process THEN "pending" ELSE "resolved", code |-> 0]
  /\ UNCHANGED <<spawnWait, restartWait, spawnCall, nextId, crashes, shutdown, live, paOp, paCalls, refUsed, refOp,
                 dlVars, cfgVars, logVars, now>>

\* The force-kill timeout of a kill call (lines 278-283).
KillTimeout(id) ==
  /\ killTimer[id]
  /\ killTimer' = [killTimer EXCEPT ![id] = FALSE]
  /\ child' = [child EXCEPT
                 ![id] = IF managed[id].process THEN signalled(@, "SIGKILL") ELSE @]
  /\ call' = NoCall
  /\ Published(<<>>)
  /\ UNCHANGED <<usedPorts, processes, managed, stateFile, spawnWait, killWait,
                 restartWait, gkill, spawnCall, nextId, crashes, shutdown, live, paOp, paCalls, refUsed, refOp,
                 dlVars, cfgVars, logVars, now>>

\* kill(id) up to its await for every id of the map, in the order of the map.
RECURSIVE killEach(_, _)
killEach(c, ids) ==
  IF ids = {}
    THEN c
    ELSE LET i == CHOOSE x \in ids : \A y \in ids : x <= y
         IN killEach(killSync(c, i), ids \ {i})

\* The handler of SIGTERM / SIGINT (lines 90-94): kill(id) for every record of
\* the map; the calls for the records with a handle stay pending until "exit".
Shutdown ==
  /\ shutdown.phase = "no"
  /\ SetCore(killEach(Core, processes))
  /\ LET held == {i \in processes : managed[i].process} IN
       /\ killWait' = [i \in Ids |-> killWait[i] \/ i \in held]
       /\ killTimer' = [i \in Ids |-> killTimer[i] \/ i \in held]
       /\ gkill' = gkill \cup {i \in held : managed[i].status = "running" /\ child[i] = "alive"}
       /\ shutdown' = [phase |-> "waiting", await |-> held]
  /\ call' = [op |-> "shutdown", id |-> NoId, res |-> "pending", code |-> 0]
  /\ UNCHANGED <<child, spawnWait, restartWait, spawnCall, nextId, crashes, live, paOp,
                 paCalls, refUsed, refOp, dlVars, cfgVars, logVars, now>>

\* The handler after Promise.all (lines 95-96): process.exit(0) once every kill
\* call has settled.
ShutdownExit ==
  /\ shutdown.phase = "waiting"
  /\ shutdown.await = {}
  /\ shutdown' = [phase |-> "exited", await |-> {}]
  /\ call' = [op |-> "shutdown", id |-> NoId, res |-> "exit", code |-> 0]
  /\ Published(<<>>)
  /\ UNCHANGED <<usedPorts, processes, managed, stateFile, child, spawnWait, killWait,
                 killTimer, restartWait, gkill, spawnCall, nextId, crashes, live, paOp,
                 paCalls, refUsed, refOp, dlVars, cfgVars, logVars, now>>

\* restart(processId) (lines 294-308). With no handle the kill returns at once
\* and the spawn follows in the same turn; otherwise the spawn waits for "exit".
Restart(id, launch) ==
  /\ id \in processes
  /\ nextId <= MaxRecords
  /\ restartWait[id] = NoId
  /\ nextId' = nextId + 1
  /\ IF managed[id].process
       THEN /\ launch = "ok"
            /\ SetCore(killSync(Core, id))
            /\ killWait' = [killWait EXCEPT ![id] = TRUE]
            /\ killTimer' = [killTimer EXCEPT ![id] = TRUE]
            /\ restartWait' = [restartWait EXCEPT ![id] = nextId]
            /\ gkill' = IF managed[id].status = "running" /\ child[id] = "alive"
                          THEN gkill \cup {id} ELSE gkill
            /\ UNCHANGED <<child, spawnWait, spawnCall>>
       ELSE LET c1 == killSync(CoreWith(userConfig(managed[id].config)), id) IN
            /\ SetCore(spawnSync(c1, nextId, launch))
            /\ child' = [child EXCEPT ![nextId] = childAfter(c1, launch)]
            /\ spawnWait' = [spawnWait EXCEPT ![nextId] = waitsAfter(c1, launch)]
            /\ spawnCall' = [spawnCall EXCEPT ![nextId] = spawnCalled(c1, launch, id)]
            /\ UNCHANGED <<killWait, killTimer, restartWait, gkill>>
  /\ call' = [op |-> "restart", id |-> id, res |-> "pending", code |-> 0]
  /\ UNCHANGED <<crashes, shutdown, live, paOp, paCalls, refUsed, refOp, dlVars, cfgVars, logVars, now>>

\* Whether removeProcess throws "Cannot remove running process" (line 368).
removeRejected(st) == st = "running" \/ st = "starting"

\* removeProcess(processId) on a known id (lines 364-375).
RemoveProcess(id) ==
  /\ id \in processes
  /\ IF removeRejected(managed[id].status)
       THEN UNCHANGED <<processes, stateFile>>
       ELSE /\ processes' = processes \ {id}
            /\ stateFile' = saveState(processes \ {id}, managed)
  /\ call' = [op |-> "removeProcess", id |-> id,
              res |-> IF removeRejected(managed[id].status) THEN "rejected" ELSE "removed",
              code |-> 0]
  /\ Published(<<>>)
  /\ UNCHANGED <<usedPorts, managed, child, spawnWait, killWait, killTimer,
                 restartWait, gkill, spawnCall, nextId, crashes, shutdown, live, paOp, paCalls, refUsed, refOp,
                 dlVars, cfgVars, logVars, now>>

\* The init message of a process stream and of the list stream.
InitEvent(id, st) == [type |-> "init", id |-> id, status |-> st]

\* An attach whose init message leaves the log buffer out.
AttachWithoutLogs(v, id) ==
  /\ viewers[v].kind = "none"
  /\ id \in processes
  /\ viewers' = [quiet(viewers) EXCEPT
                   ![v] = [kind |-> "one", id |-> id, seen |-> managed[id].status,
                           lines |-> 0,
                           inbox |-> <<InitEvent(id, managed[id].status)>>]]
  /\ emitted' = <<>>
  /\ call' = NoCall
  /\ UNCHANGED <<usedPorts, processes, managed, stateFile, child, spawnWait, killWait,
                 killTimer, restartWait, gkill, spawnCall, nextId, crashes, shutdown, live, paOp,
                 paCalls, refUsed, refOp, dlVars, cfgVars, logVars, now>>

\* GET /api/stream/process/[id] (process/[id]/route.ts, lines 6-50): 404 for an
\* unknown id; otherwise the stream's start() runs inside the constructor: it
\* writes the init message with the record's status and its log buffer, and
\* subscribes to the record's channel, in one turn.
Attach(v, id) ==
  /\ viewers[v].kind = "none"
  /\ id \in processes
  /\ viewers' = [quiet(viewers) EXCEPT
                   ![v] = [kind |-> "one", id |-> id, seen |-> managed[id].status,
                           lines |-> managed[id].logs,
                           inbox |-> <<InitEvent(id, managed[id].status)>>]]
  /\ emitted' = <<>>
  /\ call' = NoCall
  /\ UNCHANGED <<usedPorts, processes, managed, stateFile, child, spawnWait, killWait,
                 killTimer, restartWait, gkill, spawnCall, nextId, crashes, shutdown, live, paOp,
                 paCalls, refUsed, refOp, dlVars, cfgVars, logVars, now>>

\* GET /api/stream/processes (processes/route.ts): the init message with the
\* list of records, and a subscription to the global channel.
AttachAll(v) ==
  /\ viewers[v].kind = "none"
  /\ viewers' = [quiet(viewers) EXCEPT
                   ![v] = [kind |-> "all", id |-> NoId, seen |-> "", lines |-> 0,
                           inbox |-> <<InitEvent(NoId, "")>>]]
  /\ emitted' = <<>>
  /\ call' = NoCall
  /\ UNCHANGED <<usedPorts, processes, managed, stateFile, child, spawnWait, killWait,
                 killTimer, restartWait, gkill, spawnCall, nextId, crashes, shutdown, live, paOp,
                 paCalls, refUsed, refOp, dlVars, cfgVars, logVars, now>>

\* The client of a stream disconnects: the abort listener unsubscribes
\* (process/[id]/route.ts, lines 47-54).
Detach(v) ==
  /\ viewers[v].kind # "none"
  /\ viewers' = [quiet(viewers) EXCEPT ![v] = NoViewer]
  /\ emitted' = <<>>
  /\ call' = NoCall
  /\ UNCHANGED <<usedPorts, processes, managed, stateFile, child, spawnWait, killWait,
                 killTimer, restartWait, gkill, spawnCall, nextId, crashes, shutdown, live, paOp,
                 paCalls, refUsed, refOp, dlVars, cfgVars, logVars, now>>

\* The status restoreState gives a persisted record (lines 56-62).
restoredStatus(st) == IF st = "running" \/ st = "starting" THEN "stopped" ELSE st

\* Whether restoreState reserves the record's port (line 68).
reservesPort(st) == st # "stopped"

\* The reserve calls of restoreState over the records 1..n of the file, in order.
RECURSIVE restoreUsed(_, _)
restoreUsed(file, n) ==
  IF n = 0 THEN {}
  ELSE LET u == restoreUsed(file, n - 1) IN
       IF file[n].status # "none" /\ reservesPort(restoredStatus(file[n].status))
         THEN reserve(u, file[n].port)
         ELSE u

\* restoreState(): the map a new ProcessManager builds from the state file.
restoreState(file) ==
  [used |-> restoreUsed(file, MaxRecords),
   procs |-> {i \in Ids : file[i].status # "none"},
   mgd |-> [i \in Ids |->
             IF file[i].status = "none" THEN NoRec
             ELSE [status |-> restoredStatus(file[i].status), port |-> file[i].port,
                   error |-> file[i].error, process |-> FALSE, logs |-> 0,
                   config |-> file[i].config]],
   file |-> file,
   ev |-> <<>>,
   user |-> NoOverrides]

\* The supervisor process ends at any moment and a new one is constructed
\* (lines 30-35): fresh singletons, restoreState, no handle, timer or call left.
Recover ==
  /\ crashes < MaxCrashes
  /\ crashes' = crashes + 1
  /\ shutdown' = NoShutdown
  /\ SetState(restoreState(stateFile))
  /\ emitted' = <<>>
  /\ viewers' = [v \in ViewerIds |-> NoViewer]
  /\ child' = [i \in Ids |-> "none"]
  /\ spawnWait' = [i \in Ids |-> FALSE]
  /\ killWait' = [i \in Ids |-> FALSE]
  /\ killTimer' = [i \in Ids |-> FALSE]
  /\ restartWait' = [i \in Ids |-> NoId]
  /\ gkill' = {}
  /\ call' = NoCall
  /\ spawnCall' = [i \in Ids |-> NoSpawn]
  /\ UNCHANGED <<nextId, live, paOp, paCalls, refUsed, refOp, dlVars, cfgVars, logVars, now>>


\* -------------------------------------------------------- DownloadManager
DlIds == 1..MaxDownloads
SourceTypes == {"url", "s3", "huggingface"}
FileNames == {"a.gguf", "b.gguf"}
DlTerminal == {"completed", "error", "cancelled"}

\* A download record: info.status, source.type, info.filename, whether cancel
\* aborted the signal or signalled the child, info.progress.downloaded, the
\* history of the values info.status was given, info.progress.total, info.error
\* ("" when unset); and as history the size of the destination file when the
\* transfer succeeded, the size given to register, and the number of complete
\* events published (NoSize: not yet).
NoSize == 0 - 1
NoDownload ==
  [status |-> "none", type |-> "none", filename |-> "none", aborted |-> FALSE,
   downloaded |-> 0, trace |-> <<>>, total |-> 0, error |-> "",
   written |-> NoSize, regSize |-> NoSize, completes |-> 0,
   latest |-> 0, lastUpdate |-> 0, lastEvent |-> {}]

\* updateStatus(downloadId, status) of the DownloadManager (lines 81-99): nothing
\* when the id is not in the map.
dlUpdateStatusErr(dls, d, st, err) ==
  IF dls[d].status = "none" THEN dls
  ELSE [dls EXCEPT ![d].status = st, ![d].trace = Append(@, st),
                   ![d].error = IF err # "" THEN err ELSE @]

dlUpdateStatus(dls, d, st) == dlUpdateStatusErr(dls, d, st, "")

\* The status event updateStatus publishes, and the other entries of dlOut.
StatusEvent(d, st) == [type |-> "status", d |-> d, status |-> st, model |-> ""]
CompleteEvent(d, model) == [type |-> "complete", d |-> d, status |-> "", model |-> model]
RegisterCall(d, model) == [type |-> "register", d |-> d, status |-> "", model |-> model]

\* The callback the download stream route subscribes (download/[id]/route.ts,
\* lines 37-54): the event is written to the stream, and the stream of one
\* download unsubscribes and closes on complete, error or cancelled. The
\* callback of the list route (downloads/route.ts) only writes.
dlReceive(w, e) ==
  [w EXCEPT !.inbox = Append(@, e),
            !.seen = IF w.kind = "one" /\ e.type = "status" THEN e.status ELSE @,
            !.kind = IF w.kind = "one" /\ (e.type = "complete" \/
                                            e.status \in {"error", "cancelled"})
                       THEN "none" ELSE @]

dlEmit(vs, kind, id, e) ==
  [v \in ViewerIds |->
     IF vs[v].kind = kind /\ vs[v].id = id THEN dlReceive(vs[v], e) ELSE vs[v]]

\* emitEvent(event) of the DownloadManager (lines 40-43).
dlEmitEvent(vs, e) == dlEmit(dlEmit(vs, "all", NoId, e), "one", e.d, e)

\* The emitEvent calls of one synchronous stretch, in order (a register call
\* publishes nothing).
RECURSIVE dlEmitAll(_, _)
dlEmitAll(vs, out) ==
  IF out = <<>> THEN vs
  ELSE dlEmitAll(IF Head(out).type = "register" THEN vs ELSE dlEmitEvent(vs, Head(out)),
                 Tail(out))

\* What a step did outside the map, and the viewers after the listeners ran.
DlPublished(out) ==
  /\ dlOut' = out
  /\ dlViewers' = dlEmitAll(quiet(dlViewers), out)

\* A catch handler that does not tell an abort from a failure.
catchStatusError(type, errName, errMessage) == "error"

\* The status the catch handlers give (lines 174-178, 335-339, 461-465): the
\* fetch and S3 paths look at error.name, the Hugging Face path at error.message.
catchStatus(type, errName, errMessage) ==
  IF type = "huggingface"
    THEN (IF errMessage = "Download cancelled" THEN "cancelled" ELSE "error")
    ELSE (IF errName = "AbortError" THEN "cancelled" ELSE "error")

\* The catch handler of a transfer (lines 166-179, 328-340, 453-466): unlink the
\* destination file when it exists, then set cancelled or error.
DlCatch(d, errName, errMessage) ==
  LET st == catchStatus(downloads[d].type, errName, errMessage) IN
  /\ files' = files \ {downloads[d].filename}
  /\ downloads' =
       dlUpdateStatusErr(downloads, d, st, IF st = "error" THEN errMessage ELSE "")
  /\ DlPublished(<<StatusEvent(d, st)>>)
  /\ transfer' = [transfer EXCEPT ![d] = "settled"]
  /\ UNCHANGED <<registry, cancelOk, cancelNo, cancelEarly, nextDl, paVars, pmVars, cfgVars, logVars, now>>

\* A then handler that announces completion before it registers the model.
DlThenAnnouncesFirst(d, size, written) ==
  /\ registry' = registry \cup {downloads[d].filename}
  /\ downloads' = [dlUpdateStatus(downloads, d, "completed") EXCEPT
                     ![d].regSize = size, ![d].written = written,
                     ![d].completes = IF @ < 2 THEN @ + 1 ELSE @]
  /\ DlPublished(<<StatusEvent(d, "completed"), CompleteEvent(d, downloads[d].filename),
                   RegisterCall(d, downloads[d].filename)>>)
  /\ transfer' = [transfer EXCEPT ![d] = "settled"]
  /\ UNCHANGED <<cancelOk, cancelNo, cancelEarly, nextDl, paVars, pmVars, cfgVars, logVars, now>>

\* The then handler of a transfer (lines 149-165, 313-327, 437-452): register
\* the model under the given size (the registry entry of a path is identified
\* by its file name), set completed, publish the complete event. written is
\* the size of the destination file.
DlThen(d, size, written) ==
  /\ registry' = registry \cup {downloads[d].filename}
  /\ downloads' = [dlUpdateStatus(downloads, d, "completed") EXCEPT
                     ![d].regSize = size, ![d].written = written,
                     ![d].completes = IF @ < 2 THEN @ + 1 ELSE @]
  /\ DlPublished(<<RegisterCall(d, downloads[d].filename), StatusEvent(d, "completed"),
                   CompleteEvent(d, downloads[d].filename)>>)
  /\ transfer' = [transfer EXCEPT ![d] = "settled"]
  /\ UNCHANGED <<cancelOk, cancelNo, cancelEarly, nextDl, paVars, pmVars, cfgVars, logVars, now>>

\* downloadFromUrl / downloadFromS3 / downloadFromHuggingFace with valid input
\* (lines 123-148, 279-312, 413-436): the record is created pending, set to
\* downloading at once, and the transfer starts in the background. launched is
\* FALSE when the hf executable cannot be started: its "error" event (lines
\* 599-602) rejects the transfer on the next tick.
StartDownloadCall(type, f, launched) ==
  /\ nextDl <= MaxDownloads
  /\ (type # "huggingface" => launched)
  /\ nextDl' = nextDl + 1
  /\ LET rec == [NoDownload EXCEPT !.status = "pending", !.type = type, !.filename = f,
                                   !.trace = <<"pending">>, !.lastUpdate = now]
         dls == dlUpdateStatus([downloads EXCEPT ![nextDl] = rec], nextDl, "downloading")
     IN IF launched
          THEN /\ downloads' = dls
               /\ DlPublished(<<StatusEvent(nextDl, "downloading")>>)
               /\ transfer' = [transfer EXCEPT
                                 ![nextDl] = IF type = "huggingface" THEN "child" ELSE "request"]
               /\ UNCHANGED files
          ELSE /\ downloads' =
                    dlUpdateStatusErr(dls, nextDl, "error", "Failed to spawn hf process")
               /\ DlPublished(<<StatusEvent(nextDl, "downloading"), StatusEvent(nextDl, "error")>>)
               /\ transfer' = [transfer EXCEPT ![nextDl] = "settled"]
               /\ files' = files \ {f}
  /\ UNCHANGED <<registry, cancelOk, cancelNo, cancelEarly, paVars, pmVars>>

StartDownload(type, f, launched) ==
  /\ StartDownloadCall(type, f, launched)
  /\ UNCHANGED <<cfgVars, logVars, now>>

\* What can be wrong with a start request: a required field of the source is
\* missing (the URL; the bucket or the key; the repository id or the file
\* name), the URL does not parse, its scheme is not http(s), the object-store
\* credentials are not in the environment.
RequestInputs == {"ok", "missing", "unparsable", "ftp", "nocreds"}

\* The error a start request is answered with before any record is made, ""
\* when the download starts: the checks of the route (part_008, lines 47-76),
\* of downloadFromUrl (lines 105-114: both throws end as "Invalid URL"), of
\* downloadFromS3 (lines 256-258) and of downloadFromHuggingFace (lines 403-405).
startRejection(type, input) ==
  IF input = "missing"
    THEN (CASE type = "url" -> "URL is required for URL downloads"
            [] type = "s3" -> "Bucket and key are required for S3 downloads"
            [] OTHER -> "Repository ID and filename are required for Hugging Face downloads")
  ELSE IF type = "url" /\ input \in {"unparsable", "ftp"} THEN "Invalid URL"
  ELSE IF type = "s3" /\ input = "nocreds" THEN "AWS credentials not configured"
  ELSE ""

\* POST /api/downloads (part_008, lines 34-98).
PostDownloads(type, input, f, launched) ==
  /\ request' = [kind |-> "download", type |-> type, input |-> input,
                 config |-> NoOverrides, res |-> startRejection(type, input)]
  /\ IF startRejection(type, input) # ""
       THEN /\ launched
            /\ DlPublished(<<>>)
            /\ UNCHANGED <<downloads, transfer, files, registry, cancelOk, cancelNo,
                           cancelEarly, nextDl, paVars, pmVars>>
       ELSE StartDownloadCall(type, f, launched)
  /\ UNCHANGED <<cfg, args, errors, logVars, now>>

\* fetch / s3Client.send resolve with a good response (lines 190-211, 357-364):
\* the write stream creates the destination file and the pipeline starts.
\* t is the declared size (Content-Length, or ContentLength of the HEAD
\* request made before), 0 when the server gives none.
ResponseOk(d, t) ==
  /\ transfer[d] = "request"
  /\ ~downloads[d].aborted
  /\ transfer' = [transfer EXCEPT ![d] = "stream"]
  /\ files' = files \cup {downloads[d].filename}
  /\ downloads' = [downloads EXCEPT ![d].total = t]
  /\ DlPublished(<<>>)
  /\ UNCHANGED <<registry, cancelOk, cancelNo, cancelEarly, nextDl, paVars, pmVars, cfgVars, logVars, now>>

\* fetch / send reject, or the response is not usable (lines 190-203, 357-361).
ResponseFails(d) ==
  /\ transfer[d] = "request"
  /\ ~downloads[d].aborted
  /\ DlCatch(d, "Error", "HTTP error")

\* fetch / send reject because the signal was aborted while the request was pending.
RequestAborted(d) ==
  /\ transfer[d] = "request"
  /\ downloads[d].aborted
  /\ DlCatch(d, "AbortError", "This operation was aborted")

\* The pipeline ends: every chunk was written (lines 239, 394). A server that
\* declared a size sends that many bytes. register is given progress.total
\* (line 154), contentLength on the S3 path (line 314).
StreamEnds(d) ==
  /\ transfer[d] = "stream"
  /\ ~downloads[d].aborted
  /\ downloads[d].total = 0 \/ downloads[d].downloaded = downloads[d].total
  /\ DlThen(d, downloads[d].total, downloads[d].downloaded)
  /\ UNCHANGED files

\* The pipeline fails on a network or disk error.
StreamFails(d) ==
  /\ transfer[d] = "stream"
  /\ ~downloads[d].aborted
  /\ DlCatch(d, "Error", "stream error")

\* The names of the error the pipeline rejects with after the abort listener
\* (lines 233-237, 388-392) destroyed both streams: the premature close of the
\* destroyed streams (name "Error"), or the AbortError of a read that failed first.
AbortedStreamErrors == {"Error", "AbortError"}

StreamAborted(d, errName) ==
  /\ transfer[d] = "stream"
  /\ downloads[d].aborted
  /\ DlCatch(d, errName, "Premature close")

\* The message the "close" handler of the hf child rejects with (lines 573-597),
\* "" when it resolves: code 0 with the file in place resolves.
closeMessage(code, found) ==
  IF code = 0 THEN (IF found THEN "" ELSE "Downloaded file not found")
  ELSE IF code = 0 - 1 THEN "Download cancelled"
  ELSE "hf download failed"

\* The transfer state of an hf child that ended with the given code.
exitedAs(code) == IF code = 0 THEN "exit0" ELSE IF code = 1 THEN "exit1" ELSE "exitnull"

\* The hf child ends, as the operating system has it: on its own with any exit
\* code, or by the SIGTERM that cancel sent (code null, written -1).
HfExit(d, code) ==
  /\ transfer[d] = "child"
  /\ (downloads[d].aborted => code = 0 - 1)
  /\ transfer' = [transfer EXCEPT ![d] = exitedAs(code)]
  /\ DlPublished(<<>>)
  /\ UNCHANGED <<downloads, files, registry, cancelOk, cancelNo, cancelEarly, nextDl, paVars, pmVars, cfgVars, logVars, now>>

\* The "close" event of the hf child (lines 573-597); found says whether the
\* tool left its file where the handler looks for it.
\* sz is the size statSync reports for it (line 587).
HfClose(d, found, sz) ==
  /\ \E code \in ExitCodes :
       /\ transfer[d] = exitedAs(code)
       /\ (code # 0 => ~found)
       /\ (~found => sz = 0)
       /\ IF closeMessage(code, found) = ""
            THEN /\ DlThen(d, sz, sz)
                 /\ files' = files \cup {downloads[d].filename}
            ELSE DlCatch(d, "Error", closeMessage(code, found))

\* The byte counts a chunk or a progress line can carry.
Bytes == 0..MaxBytes

\* A progress event of a download.
ProgressEvent(d) == [type |-> "progress", d |-> d, status |-> "", model |-> ""]

\* Whether the throttle lets an event through at time t (lines 70, 523, 554).
due(rec, t) == t - rec.lastUpdate >= ThrottleMs

\* An updateProgress that publishes on every call.
updateProgressUnthrottled(d, rec, downloaded, t) ==
  [rec |-> [rec EXCEPT !.downloaded = downloaded, !.lastUpdate = t, !.lastEvent = {t}],
   out |-> <<ProgressEvent(d)>>]

\* updateProgress(downloadId, downloaded, total) at time t (lines 45-79): the
\* progress is stored; the event is published, and lastUpdate set, when due.
\* lastEvent is history: the time of the record's last progress event.
updateProgress(d, rec, downloaded, t) ==
  [rec |-> [rec EXCEPT !.downloaded = downloaded,
                       !.lastUpdate = IF due(rec, t) THEN t ELSE @,
                       !.lastEvent = IF due(rec, t) THEN {t} ELSE @],
   out |-> IF due(rec, t) THEN <<ProgressEvent(d)>> ELSE <<>>]

\* A chunk of n bytes read from the response body (lines 216-226, 371-381):
\* the running total of the closure (latest) grows, then updateProgress.
Chunk(d, n) ==
  /\ transfer[d] = "stream"
  /\ ~downloads[d].aborted
  /\ n > 0
  /\ downloads[d].latest + n <= MaxBytes
  /\ downloads[d].total > 0 => downloads[d].latest + n <= downloads[d].total
  /\ LET u == updateProgress(d, [downloads[d] EXCEPT !.latest = @ + n],
                             downloads[d].latest + n, now)
     IN /\ downloads' = [downloads EXCEPT ![d] = u.rec]
        /\ DlPublished(u.out)
  /\ UNCHANGED <<transfer, files, registry, cancelOk, cancelNo, cancelEarly, nextDl, paVars, pmVars, cfgVars, logVars, now>>

\* The body of the stdout and stderr handlers of the hf child for a line that
\* matches the progress pattern (lines 518-539, 549-570): the number the tool
\* printed is stored as it is, and published, only when the throttle is due.
\* latest is history: the number of the last line parsed.
hfProgress(d, rec, v, t) ==
  IF due(rec, t)
    THEN [rec |-> [rec EXCEPT !.downloaded = v, !.latest = v, !.lastUpdate = t,
                              !.lastEvent = {t}],
          out |-> <<ProgressEvent(d)>>]
    ELSE [rec |-> [rec EXCEPT !.latest = v], out |-> <<>>]

\* A stdout or stderr chunk of the hf child that matches the progress pattern
\* (lines 511-571). The chunk can still arrive after the child's "exit".
HfProgress(d, v) ==
  /\ transfer[d] \in {"child", "exit0", "exit1", "exitnull"}
  /\ downloads[d].status # "none"
  /\ downloads' = [downloads EXCEPT ![d] = hfProgress(d, downloads[d], v, now).rec]
  /\ DlPublished(hfProgress(d, downloads[d], v, now).out)
  /\ UNCHANGED <<transfer, files, registry, cancelOk, cancelNo, cancelEarly, nextDl, paVars, pmVars, cfgVars, logVars, now>>

\* Wall-clock time passes.
Tick ==
  /\ now + TickMs <= MaxTime
  /\ now' = now + TickMs
  /\ DlPublished(<<>>)
  /\ UNCHANGED <<downloads, transfer, files, registry, cancelOk, cancelNo, cancelEarly, nextDl,
                 paVars, pmVars, cfgVars, logVars>>

\* cancel(downloadId) (lines 624-641): TRUE exactly for a record in downloading.
cancelReturns(st) == st = "downloading"

\* A cancel that marks the record cancelled itself, whatever its status.
CancelMarks(d) ==
  /\ downloads[d].status # "none"
  /\ downloads' = dlUpdateStatus(downloads, d, "cancelled")
  /\ cancelNo' = cancelNo \cup {d}
  /\ DlPublished(<<StatusEvent(d, "cancelled")>>)
  /\ UNCHANGED <<cancelOk, cancelEarly, transfer, files, registry, nextDl, paVars, pmVars, cfgVars, logVars, now>>

Cancel(d) ==
  /\ downloads[d].status # "none"
  /\ IF cancelReturns(downloads[d].status)
       THEN /\ downloads' = [downloads EXCEPT ![d].aborted = TRUE]
            /\ cancelOk' = cancelOk \cup {d}
            /\ cancelEarly' = IF transfer[d] = "request" /\ downloads[d].type = "url"
                                THEN cancelEarly \cup {d} ELSE cancelEarly
            /\ UNCHANGED cancelNo
       ELSE /\ cancelNo' = cancelNo \cup {d}
            /\ UNCHANGED <<downloads, cancelOk, cancelEarly>>
  /\ DlPublished(<<>>)
  /\ UNCHANGED <<transfer, files, registry, nextDl, paVars, pmVars, cfgVars, logVars, now>>

\* The init message of a download stream and of the list stream.
DlInitEvent(d, st) == [type |-> "init", d |-> d, status |-> st, model |-> ""]

\* GET /api/stream/download/[id] (download/[id]/route.ts, lines 6-54): 404 for
\* an unknown id; otherwise start() writes the init message with the record's
\* status and subscribes to the record's channel, in one turn.
DlAttach(v, d) ==
  /\ dlViewers[v].kind = "none"
  /\ downloads[d].status # "none"
  /\ dlViewers' = [quiet(dlViewers) EXCEPT
                     ![v] = [kind |-> "one", id |-> d, seen |-> downloads[d].status,
                             lines |-> 0,
                             inbox |-> <<DlInitEvent(d, downloads[d].status)>>]]
  /\ dlOut' = <<>>
  /\ UNCHANGED <<downloads, transfer, files, registry, cancelOk, cancelNo, cancelEarly,
                 nextDl, paVars, pmVars, cfgVars, logVars, now>>

\* GET /api/stream/downloads (downloads/route.ts): the init message with the
\* list of records, and a subscription to the global channel.
DlAttachAll(v) ==
  /\ dlViewers[v].kind = "none"
  /\ dlViewers' = [quiet(dlViewers) EXCEPT
                     ![v] = [kind |-> "all", id |-> NoId, seen |-> "", lines |-> 0,
                             inbox |-> <<DlInitEvent(NoId, "")>>]]
  /\ dlOut' = <<>>
  /\ UNCHANGED <<downloads, transfer, files, registry, cancelOk, cancelNo, cancelEarly,
                 nextDl, paVars, pmVars, cfgVars, logVars, now>>

\* The client of a download stream disconnects (download/[id]/route.ts, lines 57-64).
DlDetach(v) ==
  /\ dlViewers[v].kind # "none"
  /\ dlViewers' = [quiet(dlViewers) EXCEPT ![v] = NoViewer]
  /\ dlOut' = <<>>
  /\ UNCHANGED <<downloads, transfer, files, registry, cancelOk, cancelNo, cancelEarly,
                 nextDl, paVars, pmVars, cfgVars, logVars, now>>

DlInit ==
  /\ downloads = [d \in DlIds |-> NoDownload]
  /\ transfer = [d \in DlIds |-> "none"]
  /\ files = {}
  /\ registry = {}
  /\ cancelOk = {}
  /\ cancelNo = {}
  /\ cancelEarly = {}
  /\ dlOut = <<>>
  /\ dlViewers = [v \in ViewerIds |-> NoViewer]
  /\ nextDl = 1
  /\ now = 0

NextDL ==
  \/ \E t \in SourceTypes, f \in FileNames, l \in BOOLEAN :
       StartDownload(t, f, l)
  \/ \E d \in DlIds, t \in Bytes : ResponseOk(d, t)
  \/ \E d \in DlIds : ResponseFails(d)
  \/ \E d \in DlIds : RequestAborted(d)
  \/ \E d \in DlIds : StreamEnds(d)
  \/ \E d \in DlIds : StreamFails(d)
  \/ \E d \in DlIds, n \in AbortedStreamErrors :
       StreamAborted(d, n)
  \/ \E d \in DlIds, code \in ExitCodes : HfExit(d, code)
  \/ \E d \in DlIds, found \in BOOLEAN, sz \in Bytes : HfClose(d, found, sz)
  \/ \E d \in DlIds : Cancel(d)
  \/ \E d \in DlIds, n \in Bytes : Chunk(d, n)
  \/ \E d \in DlIds, v \in Bytes : HfProgress(d, v)

PmInit ==
  /\ processes = {}
  /\ managed = [i \in Ids |-> NoRec]
  /\ stateFile = [i \in Ids |-> NoInfo]
  /\ child = [i \in Ids |-> "none"]
  /\ spawnWait = [i \in Ids |-> FALSE]
  /\ killWait = [i \in Ids |-> FALSE]
  /\ killTimer = [i \in Ids |-> FALSE]
  /\ restartWait = [i \in Ids |-> NoId]
  /\ gkill = {}
  /\ call = NoCall
  /\ emitted = <<>>
  /\ viewers = [v \in ViewerIds |-> NoViewer]
  /\ spawnCall = [i \in Ids |-> NoSpawn]
  /\ nextId = 1
  /\ crashes = 0
  /\ shutdown = NoShutdown

PaInit ==
  /\ usedPorts = {}
  /\ live = [p \in Ports |-> 0]
  /\ paOp = [op |-> "none", port |-> Exhausted, ok |-> TRUE]
  /\ paCalls = 0
  /\ refUsed = {}
  /\ refOp = [op |-> "none", port |-> Exhausted, ok |-> TRUE]

Init == PaInit /\ PmInit /\ DlInit /\ CfgInit /\ LogInit

\* The launch configuration on its own: any overrides, then the two functions.
InitArgs ==
  /\ PaInit /\ PmInit /\ DlInit /\ LogInit
  /\ cfg \in UserConfigs
  /\ args = <<>>
  /\ errors = NotValidated
  /\ request = NoRequest

Next ==
  \/ \E l \in Launches : Spawn(l)
  \/ SpawnExhausted
  \/ \E id \in Ids : GraceEnd(id)
  \/ \E id \in Ids : StdoutReady(id)
  \/ \E id \in Ids, code \in ExitCodes, late \in BOOLEAN, l \in Launches :
       ExitEvent(id, code, late, l)
  \/ \E id \in Ids, force \in BOOLEAN : Kill(id, force)
  \/ \E id \in Ids : KillTimeout(id)
  \/ \E id \in Ids, l \in Launches : Restart(id, l)
  \/ \E id \in Ids : RemoveProcess(id)
  \/ Recover

Spec == Init /\ [][Next]_vars

SpecPA == Init /\ [][NextPA]_vars

SpecDL == Init /\ [][NextDL]_vars

\* A fetch whose signal was aborted rejects; nothing else is forced to happen.
FairSpecDL ==
  /\ SpecDL
  /\ \A d \in DlIds : WF_vars(RequestAborted(d))

SpecArgs == InitArgs /\ [][NextArgs]_vars

\* The two routes that start something, with any request, and enough of what
\* follows for a request to arrive while a process and a download are under way.
NextRequests ==
  \/ \E m \in ModelIds, u \in RequestConfigs, l \in Launches :
       /\ spawnRejection(m, u) = "" => nextId <= JointRecords
       /\ PostProcesses(m, u, l)
  \/ \E t \in SourceTypes, i \in RequestInputs, f \in FileNames, l \in BOOLEAN :
       /\ startRejection(t, i) = "" => nextDl <= JointRecords
       /\ PostDownloads(t, i, f, l)
  \/ \E id \in Ids : GraceEnd(id)
  \/ \E id \in Ids : StdoutReady(id)
  \/ \E d \in DlIds, t \in Bytes : ResponseOk(d, t)
  \/ \E d \in DlIds : StreamEnds(d)

SpecRequests == Init /\ [][NextRequests]_vars

\* Both managers side by side, with JointRecords records each.
NextJoint ==
  \/ \E l \in Launches : nextId <= JointRecords /\ Spawn(l)
  \/ \E id \in Ids : GraceEnd(id)
  \/ \E id \in Ids : StdoutReady(id)
  \/ \E id \in Ids, code \in ExitCodes, late \in BOOLEAN :
       ExitEvent(id, code, late, "ok")
  \/ \E id \in Ids, force \in BOOLEAN : Kill(id, force)
  \/ \E id \in Ids : KillTimeout(id)
  \/ \E id \in Ids : RemoveProcess(id)
  \/ Recover
  \/ \E t \in SourceTypes, f \in FileNames, l \in BOOLEAN :
       nextDl <= JointRecords /\ StartDownload(t, f, l)
  \/ \E d \in DlIds, t \in Bytes : ResponseOk(d, t)
  \/ \E d \in DlIds : ResponseFails(d)
  \/ \E d \in DlIds : RequestAborted(d)
  \/ \E d \in DlIds : StreamEnds(d)
  \/ \E d \in DlIds : StreamFails(d)
  \/ \E d \in DlIds, n \in AbortedStreamErrors : StreamAborted(d, n)
  \/ \E d \in DlIds, code \in ExitCodes : HfExit(d, code)
  \/ \E d \in DlIds, found \in BOOLEAN, sz \in Bytes : HfClose(d, found, sz)
  \/ \E d \in DlIds : Cancel(d)

SpecJoint == Init /\ [][NextJoint]_vars

\* The streams of one process and of one download, with one viewer for each.
NextStreams ==
  \/ \E l \in Launches : nextId <= JointRecords /\ Spawn(l)
  \/ \E id \in Ids : GraceEnd(id)
  \/ \E id \in Ids : OutputLine(id)
  \/ \E id \in Ids : StdoutReady(id)
  \/ \E id \in Ids, code \in ExitCodes, late \in BOOLEAN :
       ExitEvent(id, code, late, "ok")
  \/ \E id \in Ids, force \in BOOLEAN : Kill(id, force)
  \/ \E v \in ViewerIds, id \in Ids : v <= JointRecords /\ Attach(v, id)
  \/ \E v \in ViewerIds : Detach(v)
  \/ \E t \in SourceTypes, f \in FileNames, l \in BOOLEAN :
       nextDl <= JointRecords /\ StartDownload(t, f, l)
  \/ \E d \in DlIds, t \in Bytes : ResponseOk(d, t)
  \/ \E d \in DlIds : ResponseFails(d)
  \/ \E d \in DlIds : RequestAborted(d)
  \/ \E d \in DlIds : StreamEnds(d)
  \/ \E d \in DlIds, code \in ExitCodes : HfExit(d, code)
  \/ \E d \in DlIds, found \in BOOLEAN, sz \in Bytes : HfClose(d, found, sz)
  \/ \E d \in DlIds : Cancel(d)
  \/ \E v \in ViewerIds, d \in DlIds : v <= JointRecords /\ DlAttach(v, d)
  \/ \E v \in ViewerIds : DlDetach(v)

SpecStreams == Init /\ [][NextStreams]_vars

\* The ProcessManager's channels: two processes, viewers of the global channel
\* and of the channels of single processes.
NextView ==
  \/ \E l \in Launches : Spawn(l)
  \/ \E id \in Ids : OutputLine(id)
  \/ \E id \in Ids : StdoutReady(id)
  \/ \E id \in Ids, code \in ExitCodes, late \in BOOLEAN :
       ExitEvent(id, code, late, "ok")
  \/ \E id \in Ids, force \in BOOLEAN : Kill(id, force)
  \/ \E v \in ViewerIds, id \in Ids : Attach(v, id)
  \/ \E v \in ViewerIds : AttachAll(v)
  \/ \E v \in ViewerIds : Detach(v)

SpecView == Init /\ [][NextView]_vars

\* C2: no port is handed out twice without a release in between, and allocate
\* throws only when every port of the range is held.
C2_AllocateExclusive ==
  /\ \A p \in Ports : live[p] <= 1
  /\ (paOp.op = "allocate" /\ ~paOp.ok) => \A p \in Ports : live[p] >= 1

\* Witness of C2: allocate has thrown with the whole range held.
C2_Witness ==
  /\ paOp.op = "allocate"
  /\ ~paOp.ok
  /\ usedPorts = Ports

\* Timers fire, a child that was sent SIGKILL exits and its "exit" event is
\* delivered; nothing else is forced to happen (a child may ignore SIGTERM, no
\* request has to arrive).
\* The records with output on both of their streams.
NextOutput ==
  \/ \E l \in Launches : Spawn(l)
  \/ \E id \in Ids : GraceEnd(id)
  \/ \E id \in Ids : StdoutReady(id)
  \/ \E id \in Ids : StderrReady(id)
  \/ \E id \in Ids, code \in ExitCodes, late \in BOOLEAN :
       ExitEvent(id, code, late, "ok")
  \/ \E id \in Ids, force \in BOOLEAN : Kill(id, force)
  \/ \E id \in Ids : KillTimeout(id)

SpecOutput == Init /\ [][NextOutput]_vars

\* The supervisor until it exits on a shutdown signal.
NextShutdown ==
  \/ \E l \in Launches : shutdown.phase # "exited" /\ Spawn(l)
  \/ \E id \in Ids : shutdown.phase # "exited" /\ GraceEnd(id)
  \/ \E id \in Ids : shutdown.phase # "exited" /\ StdoutReady(id)
  \/ \E id \in Ids, code \in ExitCodes, late \in BOOLEAN :
       shutdown.phase # "exited" /\ ExitEvent(id, code, late, "ok")
  \/ \E id \in Ids, force \in BOOLEAN : shutdown.phase # "exited" /\ Kill(id, force)
  \/ \E id \in Ids : shutdown.phase # "exited" /\ KillTimeout(id)
  \/ Shutdown
  \/ ShutdownExit

SpecShutdown == Init /\ [][NextShutdown]_vars

\* The force-kill timer fires, a child that got SIGKILL exits, and the handler
\* goes on once Promise.all has settled.
FairSpecShutdown ==
  /\ SpecShutdown
  /\ \A id \in Ids : WF_vars(KillTimeout(id))
  /\ \A id \in Ids :
       WF_vars(child[id] = "killed" /\ \E code \in ExitCodes, late \in BOOLEAN :
                 ExitEvent(id, code, late, "ok"))
  /\ WF_vars(ShutdownExit)

\* The overrides of the accepted spawn requests: none, a port of their own, a
\* port and other settings.
SpawnOverrides ==
  {NoOverrides,
   [NoOverrides EXCEPT !.port = {9000}],
   [NoOverrides EXCEPT !.port = {8001}, !.tensorParallelSize = {2}, !.dtype = {"float16"}]}

\* A spawn request with overrides, and the restarts of the record it makes.
NextConfig ==
  \/ \E u \in SpawnOverrides, l \in Launches :
       /\ spawnRejection("known", u) = ""
       /\ nextId <= JointRecords
       /\ PostProcesses("known", u, l)
  \/ \E id \in Ids : GraceEnd(id)
  \/ \E id \in Ids : StdoutReady(id)
  \/ \E id \in Ids, code \in ExitCodes, late \in BOOLEAN, l \in Launches :
       ExitEvent(id, code, late, l)
  \/ \E id \in Ids, force \in BOOLEAN : Kill(id, force)
  \/ \E id \in Ids : KillTimeout(id)
  \/ \E id \in Ids, l \in Launches : Restart(id, l)
  \/ Recover

SpecConfig == Init /\ [][NextConfig]_vars

SpecLogs == Init /\ [][NextLogs]_vars

\* One download of each kind with its progress, as time passes.
NextProgress ==
  \/ \E t \in SourceTypes, f \in FileNames :
       nextDl <= JointRecords /\ StartDownload(t, f, TRUE)
  \/ \E d \in DlIds, t \in Bytes : ResponseOk(d, t)
  \/ \E d \in DlIds : StreamEnds(d)
  \/ \E d \in DlIds, code \in ExitCodes : HfExit(d, code)
  \/ \E d \in DlIds, found \in BOOLEAN, sz \in Bytes : HfClose(d, found, sz)
  \/ \E d \in DlIds, n \in Bytes : Chunk(d, n)
  \/ \E d \in DlIds, v \in Bytes : HfProgress(d, v)
  \/ Tick

SpecProgress == Init /\ [][NextProgress]_vars

FairSpec ==
  /\ Spec
  /\ \A id \in Ids : WF_vars(GraceEnd(id))
  /\ \A id \in Ids : WF_vars(KillTimeout(id))
  /\ \A id \in Ids :
       WF_vars(child[id] = "killed" /\ \E code \in ExitCodes, late \in BOOLEAN :
                 ExitEvent(id, code, late, "ok"))

LiveIds == {i \in processes : managed[i].status \in Live}

\* C1: no two records of the map in starting, running or stopping have the same port.
C1_LivePortsDistinct ==
  \A i \in LiveIds, j \in LiveIds : i # j => managed[i].port # managed[j].port

\* C3: a record whose status is stopped or error keeps that status in every step.
C3_TerminalIsFinal ==
  [][\A id \in Ids :
       (id \in processes /\ id \in processes' /\ managed[id].status \in Terminal)
         => managed'[id].status = managed[id].status]_vars

\* C4: a record in stopping never goes back to running or starting, and a record
\* in running never goes back to starting.
C4_NoBackwardStep ==
  [][\A id \in Ids :
       (id \in processes /\ id \in processes') =>
         /\ managed[id].status = "stopping" =>
              managed'[id].status \notin {"running", "starting"}
         /\ managed[id].status = "running" => managed'[id].status # "starting"]_vars

\* C5: a record on which kill(id, false) was called while it was running with a
\* live subprocess does not end in error.
C5_GracefulKillNotError ==
  \A id \in gkill : id \in processes => managed[id].status # "error"

\* C6: every kill call waiting for the subprocess to exit eventually resolves.
C6_KillResolves ==
  \A id \in Ids : killWait[id] ~> ~killWait[id]

\* C7: on recovery, every record persisted as running or starting is loaded as
\* stopped and its port is free in the PortManager.
C7_RecoveredRunningIsFree ==
  [][crashes' # crashes =>
       \A id \in Ids :
         stateFile[id].status \in {"running", "starting"} =>
           /\ managed'[id].status = "stopped"
           /\ managed'[id].port \notin usedPorts']_vars

\* C8: on recovery, the reserved ports are exactly the ports of the records whose
\* recovered status is not terminal, and a record persisted as stopped or error
\* keeps its status.
C8_RecoveryReservesLiveOnly ==
  [][crashes' # crashes =>
       /\ usedPorts' = {managed'[id].port : id \in {i \in processes' :
                                                   managed'[i].status \in Live}}
       /\ \A id \in Ids :
            stateFile[id].status \in Terminal =>
              managed'[id].status = stateFile[id].status]_vars

\* C9: every port of the used set is the port of a record of the map that is in
\* starting, running or stopping.
C9_UsedPortsHaveLiveOwner ==
  \A p \in usedPorts : \E id \in LiveIds : managed[id].port = p

\* C10: a download for which cancel returned true is still downloading or is
\* cancelled: it never ends in error or completed.
C10_CancelledNotError ==
  \A d \in cancelOk : downloads[d].status \in {"downloading", "cancelled"}

\* C11: when a download for which cancel returned true reaches its terminal
\* status, its destination file does not exist.
C11_CancelledFileGone ==
  [][\A d \in DlIds :
       (d \in cancelOk /\ downloads[d].status = "downloading"
          /\ downloads'[d].status \in DlTerminal)
         => downloads[d].filename \notin files']_vars

\* The statuses a record can have been given, in order.
Lifecycles ==
  {<<"pending">>, <<"pending", "downloading">>}
    \cup {<<"pending", "downloading", t>> : t \in DlTerminal}

\* C12: the statuses a download record is given are pending, then downloading,
\* then one of completed, error, cancelled, and nothing after that; the current
\* status is the last one given.
C12_DownloadLifecycle ==
  \A d \in DlIds :
    downloads[d].status # "none" =>
      /\ downloads[d].trace \in Lifecycles
      /\ downloads[d].status = downloads[d].trace[Len(downloads[d].trace)]

\* Witness of C12: cancel was called on a record that had already completed.
C12_Witness ==
  \E d \in cancelNo :
    /\ downloads[d].status = "completed"
    /\ downloads[d].trace = <<"pending", "downloading", "completed">>

\* C20: while a record is downloading, progress.downloaded never goes down.
C20_DownloadedMonotone ==
  [][\A d \in DlIds :
       (downloads[d].status = "downloading" /\ downloads'[d].status = "downloading")
         => downloads'[d].downloaded >= downloads[d].downloaded]_vars

\* C13: removeProcess is rejected, leaving the map and the state file as they
\* were, when the record is starting, running or stopping; it succeeds when the
\* record is stopped or error, and the record is then gone from both.
C13_RemoveOnlyTerminal ==
  [][call'.op = "removeProcess" =>
       /\ managed[call'.id].status \in Live =>
            /\ call'.res = "rejected"
            /\ processes' = processes
            /\ stateFile' = stateFile
       /\ managed[call'.id].status \in Terminal =>
            /\ call'.res = "removed"
            /\ call'.id \notin processes'
            /\ stateFile'[call'.id] = NoInfo]_vars

\* The spawn calls made by a client (not by restart) that returned a record.
Returned == {i \in Ids : spawnCall[i].res = "returned" /\ spawnCall[i].of = NoId}

\* C14: two spawn calls that overlapped in time and both returned a record
\* returned records with different ports, both within [BASE_PORT, MAX_PORT].
C14_ConcurrentSpawnPorts ==
  \A i \in Returned, j \in Returned :
    (i # j /\ i \in spawnCall[j].with) =>
      /\ managed[i].port # managed[j].port
      /\ managed[i].port \in BASE_PORT..MAX_PORT
      /\ managed[j].port \in BASE_PORT..MAX_PORT

\* C15: at the end of the grace period spawn throws exactly when the record is
\* in error, and a record it returns is starting or running.
C15_SpawnOutcome ==
  [][call'.op = "spawnEnd" =>
       /\ call'.res = "throws" <=> managed[call'.id].status = "error"
       /\ call'.res = "returns" => managed'[call'.id].status \in {"starting", "running"}]_vars

\* C16: spawn fails with the exhaustion error only when every port of the range is
\* held, and then changes nothing: no record, no port, no write of the state
\* file, no id drawn, no event; with a port free it does not fail that way.
C16_ExhaustionMutatesNothing ==
  [][/\ call'.res = "exhausted" =>
          /\ \A p \in Ports : p \in usedPorts
          /\ UNCHANGED <<usedPorts, processes, managed, stateFile, child, nextId>>
          /\ emitted' = <<>>
     /\ (call'.op = "spawn" /\ call'.res # "exhausted") =>
          \E p \in Ports : p \notin usedPorts]_vars

\* Witness of C16: spawn has just failed for want of a port, every port held.
C16_Witness ==
  /\ call.op = "spawn"
  /\ call.res = "exhausted"
  /\ usedPorts = Ports

\* C17: a subprocess that exits while its record is starting, with no kill
\* pending, leaves the record in error with a message.
C17_EarlyExitIsError ==
  [][(/\ call'.op = "exit"
      /\ call'.id \in processes
      /\ managed[call'.id].status = "starting"
      /\ ~killWait[call'.id]) =>
       /\ managed'[call'.id].status = "error"
       /\ managed'[call'.id].error # ""]_vars

\* C18: on the exit of its subprocess a record in stopping becomes stopped
\* whatever the exit code; any other record becomes stopped on exit code 0 and
\* error, with a message, on a non-zero code or a signal.
C18_ExitHandling ==
  [][(call'.op = "exit" /\ call'.id \in processes) =>
       IF managed[call'.id].status = "stopping" \/ call'.code = 0
         THEN managed'[call'.id].status = "stopped"
         ELSE /\ managed'[call'.id].status = "error"
              /\ managed'[call'.id].error # ""]_vars

\* Witness of C18: a record that was stopping is stopped after its subprocess
\* exited with code 1.
C18_Witness ==
  /\ call.op = "exit"
  /\ call.code = 1
  /\ call.id \in processes
  /\ managed[call.id].status = "stopped"

\* C19: when the spawn made by restart(old) returns its record, the record has
\* another id than old, and the old record, if still in the map, is stopped or
\* error.
C19_RestartLeavesOldTerminal ==
  [][(call'.op = "spawnEnd" /\ call'.res = "returns"
        /\ spawnCall[call'.id].of # NoId) =>
       /\ call'.id # spawnCall[call'.id].of
       /\ spawnCall[call'.id].of \in processes' =>
            managed'[spawnCall[call'.id].of].status \in Terminal]_vars

\* C29: after every sequence of allocate, release, reserve and isAvailable calls
\* the PortManager holds the same set as the reference set model and its last
\* call returned what the reference model returns: the lowest free port of the
\* range or the failure, true from reserve and isAvailable exactly for a free
\* port of the range, and release a no-op on a free port.
C29_AgreesWithReference ==
  /\ usedPorts = refUsed
  /\ paOp = refOp

\* Witness of C29: a port released and handed out again by allocate while a
\* higher port is held.
C29_Witness ==
  /\ paOp.op = "allocate"
  /\ paOp.port = BASE_PORT
  /\ paCalls >= 4
  /\ usedPorts = Ports

\* Whether the argument list holds the flag.
HasFlag(a, flag) == \E i \in 1..Len(a) : a[i] = flag

\* The merged configuration the overrides give, whatever the port.
Merged == mergeConfig(BASE_PORT, cfg)

\* C30: when the merged configuration has tensorParallelSize unset or 1 and
\* dtype "auto", the argument list built for it holds neither the
\* --tensor-parallel-size flag nor the --dtype flag.
C30_DefaultsOmitted ==
  (/\ args # <<>>
   /\ Merged.tensorParallelSize \in {{}, {1}}
   /\ Merged.dtype = {"auto"}) =>
    /\ ~HasFlag(args, "--tensor-parallel-size")
    /\ ~HasFlag(args, "--dtype")

\* Witness of C30: the list was built for overrides with tensorParallelSize 1
\* and dtype "auto".
C30_Witness ==
  /\ args # <<>>
  /\ cfg.tensorParallelSize = {1}
  /\ cfg.dtype = {"auto"}
  /\ ~HasFlag(args, "--dtype")

\* C21: for a completed download the size given to register is the size of
\* the destination file.
C21_RegisteredSizeIsWritten ==
  \A d \in DlIds :
    downloads[d].status = "completed" => downloads[d].regSize = downloads[d].written

\* C22: a complete event comes right after the status event completed of the
\* same download, which comes right after the register call whose artifact
\* the complete event names; a status event completed is always followed by
\* the complete event; and a download has had one complete event if it is
\* completed and none otherwise.
C22_RegisterStatusComplete ==
  /\ \A k \in 1..Len(dlOut) :
       /\ dlOut[k].type = "complete" =>
            /\ k >= 3
            /\ dlOut[k - 1] = StatusEvent(dlOut[k].d, "completed")
            /\ dlOut[k - 2] = RegisterCall(dlOut[k].d, dlOut[k].model)
            /\ dlOut[k].model = downloads[dlOut[k].d].filename
            /\ dlOut[k].model \in registry
       /\ dlOut[k] = StatusEvent(dlOut[k].d, "completed") =>
            /\ k < Len(dlOut)
            /\ dlOut[k + 1].type = "complete"
            /\ dlOut[k + 1].d = dlOut[k].d
  /\ \A d \in DlIds :
       downloads[d].completes = IF downloads[d].status = "completed" THEN 1 ELSE 0

\* Witness of C22: the three steps of a completion have just happened.
C22_Witness ==
  /\ Len(dlOut) = 3
  /\ dlOut[3].type = "complete"
  /\ downloads[dlOut[3].d].status = "completed"

\* C23: when the transfer of a download that was never cancelled settles
\* without completing, the record is in error with a message and its
\* destination file does not exist.
C23_FailureCleansUp ==
  [][\A d \in DlIds :
       (/\ transfer[d] # "settled"
        /\ transfer'[d] = "settled"
        /\ d \notin cancelOk
        /\ downloads'[d].status # "completed") =>
         /\ downloads'[d].status = "error"
         /\ downloads'[d].error # ""
         /\ downloads[d].filename \notin files']_vars

\* C26: while the request of a URL download is pending the record is
\* downloading, so cancel returns true; a download cancelled then ends in
\* cancelled and in nothing else, with no file at its destination path when it
\* gets there.
C26_ImmediateCancel ==
  /\ [](\A d \in DlIds : transfer[d] = "request" => downloads[d].status = "downloading")
  /\ [][\A d \in cancelEarly :
          (downloads[d].status = "downloading" /\ downloads'[d].status # "downloading") =>
            /\ downloads'[d].status = "cancelled"
            /\ downloads[d].filename \notin files']_vars
  /\ \A d \in DlIds : (d \in cancelEarly) ~> (downloads[d].status = "cancelled")

\* Witness of C26: a URL download cancelled with its request pending is cancelled.
C26_Witness ==
  \E d \in cancelEarly :
    /\ downloads[d].status = "cancelled"
    /\ downloads[d].downloaded = 0
    /\ downloads[d].filename \notin files

\* Whether a configuration holds a value outside the bounds of its setting:
\* the port within 1024..65535, the memory share above 0 and at most 1 (in
\* tenths), the parallel size and the model length at least 1.
OutOfBounds(config) ==
  \/ \E x \in config.port : x < 1024 \/ x > 65535
  \/ \E x \in config.gpuMemoryUtilization : x <= 0 \/ x > 10
  \/ \E x \in config.tensorParallelSize : x < 1
  \/ \E x \in config.maxModelLen : x < 1

\* The start requests the claim names: a URL that does not parse or has another
\* scheme, no object-store credentials, no repository id or file name.
InvalidStart(type, input) ==
  \/ type = "url" /\ input \in {"unparsable", "ftp"}
  \/ type = "s3" /\ input = "nocreds"
  \/ type = "huggingface" /\ input = "missing"

\* C24: an invalid start request and a spawn request with an out-of-bounds
\* configuration value are answered with an error and create no record,
\* allocate no port, publish no event and touch no file.
C24_RejectedRequestsChangeNothing ==
  [][request' # request =>
       /\ (request'.kind = "spawn" /\ OutOfBounds(request'.config)) =>
            /\ request'.res # ""
            /\ emitted' = <<>>
            /\ UNCHANGED <<processes, managed, usedPorts, stateFile, child, nextId,
                           downloads, transfer, files, registry, nextDl, dlOut>>
       /\ (request'.kind = "download" /\ InvalidStart(request'.type, request'.input)) =>
            /\ request'.res # ""
            /\ dlOut' = <<>>
            /\ UNCHANGED <<downloads, transfer, files, registry, nextDl, processes,
                           managed, usedPorts, stateFile, child, nextId, emitted>>]_vars

\* Witness of C24: a spawn request with an out-of-bounds value has just been
\* rejected while a process exists and a download is writing its file.
C24_Witness ==
  /\ request.kind = "spawn"
  /\ OutOfBounds(request.config)
  /\ request.res = "Invalid configuration"
  /\ processes # {}
  /\ \E d \in DlIds : transfer[d] = "stream"

\* C25: a process record or a download record in error has a non-empty error
\* message, and a message once on a record stays as it is while the record exists.
C25_ErrorKeepsMessage ==
  /\ [](/\ \A id \in processes : managed[id].status = "error" => managed[id].error # ""
        /\ \A d \in DlIds : downloads[d].status = "error" => downloads[d].error # "")
  /\ [][/\ \A id \in processes \cap processes' :
            managed[id].error # "" => managed'[id].error = managed[id].error
        /\ \A d \in DlIds :
            downloads[d].error # "" => downloads'[d].error = downloads[d].error]_vars

\* Witness of C25: a process record and a download record are both in error.
C25_Witness ==
  /\ \E id \in processes : managed[id].status = "error" /\ managed[id].error # ""
  /\ \E d \in DlIds : downloads[d].status = "error" /\ downloads[d].error # ""

\* C27: the first message of a process stream or a download stream is the init
\* snapshot of the record as it is then, and from then on what the stream has
\* shown (the snapshot, then the live events) is the record's status and log
\* buffer: no status change and no log line is missed.
C27_SnapshotThenLive ==
  /\ [](\A v \in ViewerIds :
         /\ (viewers[v].kind = "one" /\ viewers[v].id \in processes) =>
              /\ viewers[v].seen = managed[viewers[v].id].status
              /\ viewers[v].lines = managed[viewers[v].id].logs
         /\ dlViewers[v].kind = "one" =>
              dlViewers[v].seen = downloads[dlViewers[v].id].status)
  /\ [][\A v \in ViewerIds :
         /\ (viewers[v].kind = "none" /\ viewers'[v].kind = "one") =>
              viewers'[v].inbox =
                <<[type |-> "init", id |-> viewers'[v].id,
                   status |-> managed'[viewers'[v].id].status]>>
         /\ (dlViewers[v].kind = "none" /\ dlViewers'[v].kind = "one") =>
              /\ Len(dlViewers'[v].inbox) = 1
              /\ dlViewers'[v].inbox[1].type = "init"
              /\ dlViewers'[v].inbox[1].status = downloads'[dlViewers'[v].id].status]_vars

\* Witness of C27: a process viewer that attached before the first log line
\* has been sent a live status event, and a download viewer a live status event.
C27_Witness ==
  /\ \E v \in ViewerIds :
       /\ viewers[v].kind = "one"
       /\ viewers[v].lines > 0
       /\ viewers[v].inbox # <<>>
       /\ viewers[v].inbox[Len(viewers[v].inbox)].type = "status"
  /\ \E v \in ViewerIds :
       /\ dlViewers[v].inbox # <<>>
       /\ dlViewers[v].inbox[1].type = "status"

\* The live events written to the stream of viewer v in the last step, and the
\* events of the last step published on the channel v is subscribed to.
LiveEvents(v) ==
  LET isLive(e) == e.type # "init" IN SelectSeq(viewers[v].inbox, isLive)
OnChannel(v) ==
  LET wanted(e) == \/ viewers[v].kind = "all"
                   \/ viewers[v].kind = "one" /\ viewers[v].id = e.id
  IN SelectSeq(emitted, wanted)

\* C28: every subscriber of the global channel gets every event, a subscriber
\* of the channel of a process gets the events of that process and no other,
\* each in the order of publication, and a viewer that is not subscribed gets
\* nothing.
C28_ChannelDelivery == \A v \in ViewerIds : LiveEvents(v) = OnChannel(v)

\* Witness of C28: one step published two events of a process; a viewer of the
\* global channel and a viewer of that process's channel are subscribed, and a
\* second process exists.
C28_Witness ==
  /\ Len(emitted) = 2
  /\ processes = Ids
  /\ \E v \in ViewerIds, w \in ViewerIds :
       /\ viewers[v].kind = "all"
       /\ viewers[w].kind = "one"
       /\ viewers[w].id = emitted[1].id
       /\ Len(viewers[w].inbox) = 2

\* C31: no step removes a file that is registered: the cleanup of a download
\* that failed or was cancelled leaves the file of a completed download with
\* the same destination name in place.
C31_CleanupSparesRegisteredFile ==
  [][\A f \in registry : f \in files => f \in files']_vars

\* C32: a record that is starting, running or stopping has its process handle
\* set and its subprocess alive.
C32_LiveRecordHasLiveChild ==
  \A id \in processes :
    managed[id].status \in Live =>
      /\ managed[id].process
      /\ child[id] \in {"alive", "killed"}

\* The flags of the settings the model covers that buildVLLMArgs may leave out.
OptionalFlags ==
  {"--tensor-parallel-size", "--pipeline-parallel-size", "--dtype", "--max-model-len",
   "--gpu-memory-utilization", "--enforce-eager"}

\* C36: with no overrides the argument list holds no optional flag; a tensor
\* parallel size of 1 gives no --tensor-parallel-size; a memory share outside
\* (0, 1] gives no --gpu-memory-utilization.
C36_OnlyNonDefaultFlags ==
  args # <<>> =>
    /\ cfg = NoOverrides => \A flag \in OptionalFlags : ~HasFlag(args, flag)
    /\ cfg.tensorParallelSize = {1} => ~HasFlag(args, "--tensor-parallel-size")
    /\ (\E x \in cfg.gpuMemoryUtilization : x <= 0 \/ x > 10) =>
         ~HasFlag(args, "--gpu-memory-utilization")

\* C33: a step that publishes a status event for a process record, or removes a
\* record, leaves the state file with exactly the ids of the in-memory map and
\* with the status each record has in memory, the published status included.
StatusPublished == \E i \in DOMAIN emitted : emitted[i].type = "status"
DurableMatchesMemory ==
  \A i \in Ids :
    stateFile[i].status = IF i \in processes THEN managed[i].status ELSE NoInfo.status
LastStatusDurable ==
  \A i \in DOMAIN emitted :
    (/\ emitted[i].type = "status"
     /\ \A j \in DOMAIN emitted : j > i => emitted[j].id # emitted[i].id \/ emitted[j].type # "status")
      => stateFile[emitted[i].id].status = emitted[i].status
C39_MarkerOnEitherStream ==
  [][\A id \in processes :
       (/\ call'.op = "marker"
        /\ call'.id = id
        /\ managed[id].status = "starting")
         => managed'[id].status = "running"]_vars

\* C40: once the shutdown handler has called kill for every record, the
\* supervisor eventually reaches process.exit, whatever records it holds.
C40_ShutdownExits == (shutdown.phase = "waiting") ~> (shutdown.phase = "exited")

\* C37: the config of every record, made by spawn or by restart, has the port
\* allocated for the record and the loopback host, whatever the overrides of
\* the request or the config carried over from the old record hold.
C37_ConfigPortIsAllocated ==
  \A id \in processes :
    /\ managed[id].config.port = {managed[id].port}
    /\ managed[id].config.host = HOST
C37_Witness ==
  /\ request.kind = "spawn"
  /\ request.res = ""
  /\ request.config.port = {9000}
  /\ \E id \in processes :
       /\ spawnCall[id].of \in processes
       /\ managed[id].status = "running"
       /\ managed[id].config.port = {managed[id].port}

\* C38: the log buffer never holds more than the cap; it is the most recent
\* lines, at most the cap, in arrival order; getLogs with a tail returns the
\* last tail lines of the buffer, and the whole buffer without one.
MostRecent(n) == [i \in 1..n |-> arrived[Len(arrived) - n + i]]
C34_ProgressIsLatest ==
  [][\A d \in DlIds :
       downloads'[d].latest # downloads[d].latest
         => downloads'[d].downloaded = downloads'[d].latest]_vars

\* C35: a progress event of a record comes at least ThrottleMs after the
\* record's previous progress event, for the three kinds of source.
ProgressPublished(d) ==
  \E i \in DOMAIN dlOut : dlOut[i].type = "progress" /\ dlOut[i].d = d
C35_ProgressEventsThrottled ==
  [][\A d \in DlIds :
       (ProgressPublished(d)' /\ downloads[d].lastEvent # {})
         => now' - Val(downloads[d].lastEvent) >= ThrottleMs]_vars
C35_Witness ==
  \E d \in DlIds :
    /\ ProgressPublished(d)
    /\ downloads[d].lastEvent = {now}
    /\ now >= ThrottleMs + ThrottleMs
    /\ downloads[d].downloaded = MaxBytes
====
